---- MODULE Spec2Model ----
(***************************************************************************)
(* Model of the Data-Service gateway's data plane.                         *)
(*                                                                         *)
(* Part 1: DataStore (src/Data-Service/src/dataservice/core/datastore.py). *)
(*                                                                         *)
(* Python values are modelled as tagged records: [t, n, s] with            *)
(*   t = "int"   : the integer n                                           *)
(*   t = "float" : the float n/2 (floats are kept in halves, so 17.0 is    *)
(*                 n = 34 and 2.5 is n = 5)                                *)
(*   t = "bool"  : n = 1 for True and 0 for False                          *)
(*   t = "str"   : the string s, a sequence of one-character strings       *)
(*   t = "none"  : None                                                    *)
(* Every time.time() call of one operation reads the clock `now`; the      *)
(* clock advances by one on every register and write call.                 *)
(***************************************************************************)
EXTENDS Integers, Sequences, FiniteSets, TLC

VARIABLES
    data_points,        \* DataStore._data_points : key -> DataPoint
    key_to_address,     \* DataStore._key_to_address
    address_to_key,     \* DataStore._address_to_key
    key_to_id,          \* DataStore._key_to_id
    id_to_key,          \* DataStore._id_to_key
    change_listeners,   \* DataStore._change_listeners (sequence of callbacks)
    history,            \* DataStore._history : key -> sequence of samples
    next_addresses,     \* DataStore._next_addresses : data_type -> cursor
    now,                \* wall clock read by time.time()
    next_uuid,          \* number of uuid4() values drawn so far
    ret,                \* the last call: operation, arguments, result, error
    calls,              \* listener invocations made by the last call
    written,            \* per key, every sample a write stored, in write order
    conflict_allowed,   \* some register call passed allow_address_conflict = True
    lock,               \* DataStore._lock : the thread holding it, or NoThread
    threads,            \* per handler thread: its request and its place in write
    observed,           \* what the last reader call returned, and what was committed
    committed,          \* per key, value and quality as the last finished write left them
    request,            \* the last line an IPC client sent
    response,           \* what _send wrote back to that client
    modbus_mappings,    \* MODBUS_MAPPING._mappings : data_id -> mapping
    iec104_mappings,    \* IEC104_MAPPING._mappings : data_id -> mapping
    map_call,           \* the last call on a mapping registry, and its results
    holding_registers,  \* the holding registers of the Modbus server's data bank
    modbus_tick,        \* the last publisher tick: its number, updates and error
    stop_event,         \* the Event that tells the server threads to stop
    iec104_server,      \* basic_iec104_server: where it is, its listener and locals
    client_sockets,     \* per IEC-104 client: its socket and the frames sent to it
    iec104_round,       \* the last pass of the fallback loop: frames built, error
    server_threads,     \* the Modbus, OPC-UA and SNMP threads: state, passes, error
    opcua_nodes,        \* key_to_var and key_to_type: per key the UA variable
    opcua_mappings,     \* OPCUA_MAPPING._mappings : data_id -> mapping
    snmp_mappings,      \* SNMP_MAPPING._mappings : data_id -> mapping
    mqtt,               \* MqttForwarder: its events, its queue and its _run thread
    ipc_server          \* IpcServer: _server, _thread, _stop, the sockets and threads

store_vars == <<data_points, key_to_address, address_to_key, key_to_id,
                id_to_key, change_listeners, history, next_addresses>>

\* the variables of the threads that call the store
conc_vars == <<lock, threads, observed, committed>>

\* the protocol mapping registries
map_vars == <<modbus_mappings, iec104_mappings, map_call>>

\* the last exchange on the IPC socket
ipc_vars == <<request, response>>

\* the state of the protocol servers
srv_vars == <<holding_registers, modbus_tick, stop_event, iec104_server, client_sockets,
              iec104_round, server_threads, opcua_nodes, opcua_mappings, snmp_mappings>>

\* what no operation of the single-threaded DataStore touches
\* the MQTT forwarder and the IPC listener
svc_vars == <<mqtt, ipc_server>>

aux_vars == <<conc_vars, ipc_vars, map_vars, srv_vars, svc_vars>>

vars == <<lock, threads, observed, committed, request, response,
          modbus_mappings, iec104_mappings, map_call,
          holding_registers, modbus_tick, stop_event, iec104_server, client_sockets,
          iec104_round, server_threads, opcua_nodes, opcua_mappings, snmp_mappings,
          mqtt, ipc_server,
          data_points, key_to_address, address_to_key, key_to_id, id_to_key,
          change_listeners, history, next_addresses, now, next_uuid, calls,
          written, conflict_allowed, ret>>

(***************************************************************************)
(* Bounds of the model.                                                    *)
(***************************************************************************)
\* number of addresses in each data_type range (the source has 1000)
RangeSize == 2
\* number of register/write calls in a behaviour of SpecWrite
MaxWriteClock == 3
\* number of register/write calls in a behaviour of SpecReg
MaxRegClock == 4
\* number of register/write calls in a behaviour of SpecId
MaxIdClock == 3
\* number of register/write calls in a behaviour of SpecHist
MaxHistClock == 6
\* DataStore._max_history_size, the samples kept per key (the source keeps 1000)
max_history_size == 3
\* the default of get_history's limit (the source's is 100, a tenth of
\* _max_history_size; the model keeps it below max_history_size)
default_history_limit == 2
\* number of uuid4() values drawn in a behaviour
MaxIds == 3
\* number of add_change_listener calls in a behaviour
MaxListeners == 2
\* number of register/write calls in a behaviour of SpecListen
MaxListenClock == 4
\* number of register/write calls in a behaviour of SpecIpc
MaxIpcClock == 4
\* number of elements of the updates list of a bulk_write_by_id request
MaxUpdates == 2
\* number of calls on the mapping registries in a behaviour of SpecMap
MaxMapCalls == 2
\* number of register/write calls in a behaviour of SpecConc
MaxConcClock == 4
\* number of register/write calls in a behaviour of SpecModbus
MaxModbusClock == 4
\* number of set_mapping calls in a behaviour of SpecModbus
MaxModbusMaps == 3
\* number of publisher ticks in a behaviour of SpecModbus
MaxModbusTicks == 2
\* number of clients that connect to the IEC-104 fallback server
MaxClients == 2
\* number of passes of the loop of the IEC-104 fallback server
MaxPasses == 2
\* number of register/write calls in a behaviour of SpecIec104
MaxIec104Clock == 3
\* number of passes of the loop of each server thread in SpecServers
MaxServerPasses == 2
\* number of register/write calls in a behaviour of SpecServers
MaxServersClock == 4
\* number of register/write calls in a behaviour of SpecOpcua
MaxOpcuaClock == 5
\* number of passes of the OPC-UA loop in SpecOpcua
MaxOpcuaPasses == 2
\* MQTT_MAX_QUEUE, 1000 unless the environment sets it, at a small scale
MQTT_MAX_QUEUE == 2
\* number of passes of the loop of _run in SpecMqtt
MaxMqttPasses == 4
\* number of register/write calls in a behaviour of SpecType
MaxTypeClock == 4
\* number of accept threads started in SpecIpcServer
MaxIpcStarts == 2
\* number of connections an accept thread takes in SpecIpcServer
MaxAccepts == 2

(***************************************************************************)
(* Python values.                                                          *)
(***************************************************************************)
PyIntV(i) == [t |-> "int", n |-> i, s |-> <<>>]
PyFloatV(h) == [t |-> "float", n |-> h, s |-> <<>>]
PyBoolV(b) == [t |-> "bool", n |-> IF b THEN 1 ELSE 0, s |-> <<>>]
PyStrV(str) == [t |-> "str", n |-> 0, s |-> str]
PyNone == [t |-> "none", n |-> 0, s |-> <<>>]

IsNum(v) == v.t \in {"int", "float", "bool"}

\* the numeric value of v in halves
Halves(v) == IF v.t = "float" THEN v.n ELSE 2 * v.n

\* Python's == on the modelled values (1 == 1.0 == True)
PyEq(a, b) ==
    IF IsNum(a) /\ IsNum(b) THEN Halves(a) = Halves(b)
    ELSE a.t = b.t /\ a.s = b.s

\* Python's truthiness, as used by `if not key` and bool(value)
Truthy(v) ==
    CASE IsNum(v) -> v.n # 0
      [] v.t = "str" -> v.s # <<>>
      [] OTHER -> FALSE

Digits == <<"0", "1", "2", "3", "4", "5", "6", "7", "8", "9">>

DigitValue(c) == (CHOOSE i \in 1..10 : Digits[i] = c) - 1

IsDigit(c) == \E i \in 1..10 : Digits[i] = c

RECURSIVE NatToStr(_)
NatToStr(i) ==
    IF i < 10 THEN <<Digits[i + 1]>>
    ELSE NatToStr(i \div 10) \o <<Digits[(i % 10) + 1]>>

IntToStr(i) == IF i < 0 THEN <<"-">> \o NatToStr(0 - i) ELSE NatToStr(i)

RECURSIVE StrToNat(_)
StrToNat(str) ==
    IF str = <<>> THEN 0
    ELSE 10 * StrToNat(SubSeq(str, 1, Len(str) - 1)) + DigitValue(str[Len(str)])

AllDigits(str) == str # <<>> /\ \A i \in 1..Len(str) : IsDigit(str[i])

\* int(x) of a float given in halves: truncation toward zero
TruncHalves(h) == IF h >= 0 THEN h \div 2 ELSE 0 - ((0 - h) \div 2)

\* repr of a float given in halves: "17.0", "2.5", "-0.5"
FloatToStr(h) ==
    LET a == IF h < 0 THEN 0 - h ELSE h
    IN  (IF h < 0 THEN <<"-">> ELSE <<>>) \o NatToStr(a \div 2)
            \o <<".">> \o (IF a % 2 = 0 THEN <<"0">> ELSE <<"5">>)

\* float(str) on a decimal literal [sign] digits [ "." ("0" | "5") ];
\* any other string of the model's inputs raises ValueError
ParseFloat(str) ==
    LET neg == str # <<>> /\ str[1] = "-"
        body == IF str # <<>> /\ str[1] \in {"-", "+"} THEN Tail(str) ELSE str
        dots == {i \in 1..Len(body) : body[i] = "."}
        sgn(h) == IF neg THEN 0 - h ELSE h
    IN  IF dots = {} THEN
            IF AllDigits(body)
            THEN [ok |-> TRUE, val |-> PyFloatV(sgn(2 * StrToNat(body)))]
            ELSE [ok |-> FALSE, val |-> PyNone]
        ELSE
            LET d == CHOOSE i \in dots : TRUE
                ip == SubSeq(body, 1, d - 1)
                fp == SubSeq(body, d + 1, Len(body))
            IN  IF Cardinality(dots) = 1 /\ AllDigits(ip) /\ fp \in {<<"0">>, <<"5">>}
                THEN [ok |-> TRUE,
                      val |-> PyFloatV(sgn(2 * StrToNat(ip) + (IF fp = <<"5">> THEN 1 ELSE 0)))]
                ELSE [ok |-> FALSE, val |-> PyNone]

\* float(value): raises TypeError on None, ValueError on a non-numeric string
PyFloat(v) ==
    CASE v.t = "float" -> [ok |-> TRUE, val |-> v]
      [] v.t \in {"int", "bool"} -> [ok |-> TRUE, val |-> PyFloatV(2 * v.n)]
      [] v.t = "str" -> ParseFloat(v.s)
      [] OTHER -> [ok |-> FALSE, val |-> PyNone]

\* int(float(value))
PyInt(v) ==
    LET f == PyFloat(v)
    IN  IF f.ok THEN [ok |-> TRUE, val |-> PyIntV(TruncHalves(f.val.n))] ELSE f

\* bool(value): never raises
PyBool(v) == [ok |-> TRUE, val |-> PyBoolV(Truthy(v))]

\* str(value): never raises
PyStr(v) ==
    [ok |-> TRUE,
     val |-> CASE v.t = "str" -> v
               [] v.t = "int" -> PyStrV(IntToStr(v.n))
               [] v.t = "float" -> PyStrV(FloatToStr(v.n))
               [] v.t = "bool" -> PyStrV(IF v.n = 1 THEN <<"T", "r", "u", "e">>
                                         ELSE <<"F", "a", "l", "s", "e">>)
               [] OTHER -> PyStrV(<<"N", "o", "n", "e">>)]

(***************************************************************************)
(* Dictionaries: functions whose domain is the set of keys present.        *)
(***************************************************************************)
EmptyDict == <<>>

Put(d, k, v) == [x \in (DOMAIN d) \cup {k} |-> IF x = k THEN v ELSE d[x]]


Get(d, k, dflt) == IF k \in DOMAIN d THEN d[k] ELSE dflt

\* the argument meaning "address is None" of register, and DataPoint.address = None
NoneAddr == -1

\* the result of dict.get on a missing key, where the values are keys
NoneKey == ""

(***************************************************************************)
(* DataPoint                                                               *)
(***************************************************************************)
\* DataPoint.__init__
DataPoint(key, value, default, address, data_type, units, t) ==
    [key |-> key, value |-> value, default |-> default, address |-> address,
     data_type |-> data_type, units |-> units, timestamp |-> t,
     quality |-> "GOOD", last_change |-> t]

\* DataPoint.set_value
set_value(dp, new_value, t) ==
    [dp EXCEPT !.last_change = IF ~PyEq(dp.value, new_value) THEN t ELSE @,
               !.value = new_value,
               !.timestamp = t,
               !.quality = "GOOD"]

(***************************************************************************)
(* DataStore                                                               *)
(***************************************************************************)
\* DataStore._address_ranges: the first address of each range is the source's,
\* each range holds RangeSize addresses
address_ranges ==
    [float |-> <<40001, 40001 + RangeSize - 1>>,
     int |-> <<41001, 41001 + RangeSize - 1>>,
     bool |-> <<42001, 42001 + RangeSize - 1>>,
     string |-> <<43001, 43001 + RangeSize - 1>>,
     raw |-> <<44001, 44001 + RangeSize - 1>>]

\* DataStore._next_addresses after __init__
InitNextAddresses == [dt \in DOMAIN address_ranges |-> address_ranges[dt][1]]

\* _allocate_address handing out the start of the range when the scan finds no
\* free address, instead of raising
_allocate_address_wraps(nexts, a2k, data_type) ==
    LET dt == IF data_type \notin DOMAIN nexts THEN "float" ELSE data_type
        start == address_ranges[dt][1]
        end == address_ranges[dt][2]
        free == {a \in nexts[dt]..end : a \notin DOMAIN a2k}
    IN  IF free # {}
        THEN LET next_addr == CHOOSE a \in free : \A b \in free : a <= b
             IN  [err |-> FALSE, addr |-> next_addr,
                  next |-> [nexts EXCEPT ![dt] = next_addr + 1]]
        ELSE [err |-> FALSE, addr |-> start,
              next |-> [nexts EXCEPT ![dt] = start + 1]]

\* DataStore._allocate_address: the address found by the scan, or the
\* exhaustion error; next is _next_addresses as the call leaves it
_allocate_address(nexts, a2k, data_type) ==
    LET dt == IF data_type \notin DOMAIN nexts THEN "float" ELSE data_type
        start == address_ranges[dt][1]
        end == address_ranges[dt][2]
        free == {a \in nexts[dt]..end : a \notin DOMAIN a2k}
    IN  IF free # {}
        THEN LET next_addr == CHOOSE a \in free : \A b \in free : a <= b
             IN  [err |-> FALSE, addr |-> next_addr,
                  next |-> [nexts EXCEPT ![dt] = next_addr + 1]]
        ELSE [err |-> TRUE, addr |-> NoneAddr,
              next |-> [nexts EXCEPT ![dt] = start]]

\* the address check comparing with == instead of !=
address_conflict_same_key(a2k, key, address, allow_address_conflict) ==
    /\ ~allow_address_conflict
    /\ address \in DOMAIN a2k
    /\ a2k[address] = key

\* the address check left out
address_conflict_never(a2k, key, address, allow_address_conflict) == FALSE

\* DataStore.register, the address check: TRUE when register raises ValueError
address_conflict(a2k, key, address, allow_address_conflict) ==
    /\ ~allow_address_conflict
    /\ address \in DOMAIN a2k
    /\ a2k[address] # key

\* DataStore.register, "create or update data point"
register_point(dps, key, default, data_type, units, address, t) ==
    IF key \in DOMAIN dps
    THEN [dps EXCEPT ![key] =
            [@ EXCEPT !.default = default,
                      !.data_type = data_type,
                      !.units = units,
                      !.address = IF address # NoneAddr THEN address ELSE @]]
    ELSE Put(dps, key, DataPoint(key, default, default, address, data_type, units, t))

RegisterArgs(key, address, default, data_type, units, allow_address_conflict, auto_allocate) ==
    [key |-> key, address |-> address, default |-> default, data_type |-> data_type,
     units |-> units, allow_address_conflict |-> allow_address_conflict,
     auto_allocate |-> auto_allocate]

\* DataStore.register
Register(key, address, default, data_type, units, allow_address_conflict, auto_allocate) ==
    LET arg == RegisterArgs(key, address, default, data_type, units,
                            allow_address_conflict, auto_allocate)
        alloc == IF address = NoneAddr /\ auto_allocate
                 THEN _allocate_address(next_addresses, address_to_key, data_type)
                 ELSE [err |-> FALSE, addr |-> address, next |-> next_addresses]
        addr == alloc.addr
        t == now + 1
    IN  /\ now' = t
        /\ calls' = <<>>
        /\ next_addresses' = alloc.next
        /\ UNCHANGED aux_vars
        /\ UNCHANGED <<key_to_id, id_to_key, change_listeners, history, next_uuid, written>>
        /\ conflict_allowed' = (conflict_allowed \/ allow_address_conflict)
        /\ IF alloc.err
           THEN /\ ret' = [op |-> "register", arg |-> arg, val |-> 0, err |-> "exhausted"]
                /\ UNCHANGED <<data_points, key_to_address, address_to_key>>
           ELSE IF addr # NoneAddr
                   /\ address_conflict(address_to_key, key, addr, allow_address_conflict)
           THEN /\ ret' = [op |-> "register", arg |-> arg, val |-> 0, err |-> "conflict"]
                /\ UNCHANGED <<data_points, key_to_address, address_to_key>>
           ELSE /\ key_to_address' = IF addr # NoneAddr
                                     THEN Put(key_to_address, key, addr)
                                     ELSE key_to_address
                /\ address_to_key' = IF addr # NoneAddr
                                     THEN Put(address_to_key, addr, key)
                                     ELSE address_to_key
                /\ data_points' = register_point(data_points, key, default, data_type,
                                                 units, addr, t)
                /\ ret' = [op |-> "register", arg |-> arg,
                           val |-> IF addr = NoneAddr THEN 0 ELSE addr,
                           err |-> "none"]

\* ensure_id minting a new id on every call
ensure_id_always_mints(k2i, i2k, key, uuid) ==
    [k2i |-> Put(k2i, key, uuid), i2k |-> Put(i2k, uuid, key), minted |-> TRUE]

\* DataStore.ensure_id; uuid4() yields a value never drawn before
ensure_id(k2i, i2k, key, uuid) ==
    IF key \notin DOMAIN k2i
    THEN [k2i |-> Put(k2i, key, uuid), i2k |-> Put(i2k, uuid, key), minted |-> TRUE]
    ELSE [k2i |-> k2i, i2k |-> i2k, minted |-> FALSE]

EnsureId(key) ==
    LET r == ensure_id(key_to_id, id_to_key, key, next_uuid + 1)
    IN  /\ key_to_id' = r.k2i
        /\ id_to_key' = r.i2k
        /\ next_uuid' = IF r.minted THEN next_uuid + 1 ELSE next_uuid
        /\ ret' = [op |-> "ensure_id", arg |-> key, val |-> r.k2i[key], err |-> "none"]
        /\ calls' = <<>>
        /\ UNCHANGED <<data_points, key_to_address, address_to_key, change_listeners,
                       history, next_addresses, now, written,
                       conflict_allowed>>
        /\ UNCHANGED aux_vars

\* the key_or_address argument of read and write
KeyArg(k) == [str |-> TRUE, k |-> k, a |-> 0]
AddrArg(a) == [str |-> FALSE, k |-> NoneKey, a |-> a]

\* read/write: the key named by key_or_address, NoneKey when an address maps to none
resolve_key(a2k, key_or_address) ==
    IF key_or_address.str THEN key_or_address.k
    ELSE Get(a2k, key_or_address.a, NoneKey)

\* DataStore.read
read(dps, a2k, key_or_address) ==
    LET key == resolve_key(a2k, key_or_address)
    IN  IF ~key_or_address.str /\ key = NoneKey THEN PyIntV(0)
        ELSE IF key \in DOMAIN dps THEN dps[key].value
        ELSE PyIntV(0)

Read(key_or_address) ==
    /\ ret' = [op |-> "read", arg |-> key_or_address,
               val |-> read(data_points, address_to_key, key_or_address), err |-> "none"]
    /\ calls' = <<>>
    /\ UNCHANGED <<data_points, key_to_address, address_to_key, key_to_id, id_to_key,
                   change_listeners, history, next_addresses, now, next_uuid, written,
                   conflict_allowed>>
    /\ UNCHANGED aux_vars

\* DataStore._coerce_value: the value returned, whether ValueError/TypeError was
\* caught, and the data point as the call leaves it
_coerce_value(dp, value) ==
    LET c == CASE dp.data_type = "int" -> PyInt(value)
               [] dp.data_type = "float" -> PyFloat(value)
               [] dp.data_type = "bool" -> PyBool(value)
               [] dp.data_type = "string" -> PyStr(value)
               [] OTHER -> [ok |-> TRUE, val |-> value]
    IN  IF c.ok THEN [val |-> c.val, raised |-> FALSE, dp |-> dp]
        ELSE [val |-> dp.default, raised |-> TRUE, dp |-> [dp EXCEPT !.quality = "BAD"]]

\* _add_to_history dropping the newest sample (pop() for pop(0)) when full
_add_to_history_pops_newest(hist, value, t) ==
    LET appended == Append(hist, [timestamp |-> t, value |-> value])
    IN  IF Len(appended) > max_history_size
        THEN SubSeq(appended, 1, Len(appended) - 1)
        ELSE appended

\* DataStore._add_to_history on the list of one key

_add_to_history(hist, value, t) ==
    LET appended == Append(hist, [timestamp |-> t, value |-> value])
    IN  IF Len(appended) > max_history_size THEN Tail(appended) ELSE appended

\* listeners whose body raises an Exception on every call
RaisingCallbacks == {"cb_raises"}

\* _notify_change without the try/except around the callback: the first
\* exception ends the loop
_notify_change_unguarded(listeners, key, old_value, new_value, t) ==
    LET raisers == {i \in 1..Len(listeners) : listeners[i] \in RaisingCallbacks}
        last == IF raisers = {} THEN Len(listeners)
                ELSE CHOOSE i \in raisers : \A j \in raisers : i <= j
    IN  [i \in 1..last |->
            [cb |-> listeners[i], key |-> key, old |-> old_value, new |-> new_value,
             ts |-> t, caught |-> listeners[i] \in RaisingCallbacks]]

\* DataStore._notify_change: the calls made, in listener order; caught tells
\* that the callback raised and the except clause swallowed the exception
_notify_change(listeners, key, old_value, new_value, t) ==
    [i \in 1..Len(listeners) |->
        [cb |-> listeners[i], key |-> key, old |-> old_value, new |-> new_value,
         ts |-> t, caught |-> listeners[i] \in RaisingCallbacks]]

\* write notifying the listeners of every write
value_changed_always(old_value, validated_value) == TRUE

\* DataStore.write, the comparison that decides whether listeners are notified
value_changed(old_value, validated_value) == ~PyEq(old_value, validated_value)

\* write creating the data point of an unregistered key instead of returning
write_creates(dps, hists, a2k, listeners, key_or_address, value, t) ==
    LET key == resolve_key(a2k, key_or_address)
    IN  IF ~key_or_address.str /\ key = NoneKey
        THEN [data_points |-> dps, history |-> hists, calls |-> <<>>,
              key |-> NoneKey, raised |-> FALSE]
        ELSE LET dp == Get(dps, key, DataPoint(key, PyIntV(0), PyIntV(0), NoneAddr,
                                               "raw", "", t))
                 old_value == dp.value
                 c == _coerce_value(dp, value)
                 validated_value == c.val
             IN  [data_points |-> Put(dps, key, set_value(c.dp, validated_value, t)),
                  history |-> Put(hists, key,
                                  _add_to_history(Get(hists, key, <<>>), validated_value, t)),
                  calls |-> IF value_changed(old_value, validated_value)
                            THEN _notify_change(listeners, key, old_value, validated_value, t)
                            ELSE <<>>,
                  key |-> key, raised |-> c.raised]

\* DataStore.write on the store's dictionaries: what the call leaves in
\* _data_points and _history, the listener calls it makes, the key it updated
\* (NoneKey when the write is dropped) and whether coercion raised
write(dps, hists, a2k, listeners, key_or_address, value, t) ==
    LET key == resolve_key(a2k, key_or_address)
    IN  IF (~key_or_address.str /\ key = NoneKey) \/ key \notin DOMAIN dps
        THEN [data_points |-> dps, history |-> hists, calls |-> <<>>,
              key |-> NoneKey, raised |-> FALSE]
        ELSE LET dp == dps[key]
                 old_value == dp.value
                 c == _coerce_value(dp, value)
                 validated_value == c.val
             IN  [data_points |-> [dps EXCEPT ![key] = set_value(c.dp, validated_value, t)],
                  history |-> Put(hists, key,
                                  _add_to_history(Get(hists, key, <<>>), validated_value, t)),
                  calls |-> IF value_changed(old_value, validated_value)
                            THEN _notify_change(listeners, key, old_value, validated_value, t)
                            ELSE <<>>,
                  key |-> key, raised |-> c.raised]

Write(key_or_address, value) ==
    LET t == now + 1
        w == write(data_points, history, address_to_key, change_listeners,
                   key_or_address, value, t)
    IN  /\ now' = t
        /\ data_points' = w.data_points
        /\ history' = w.history
        /\ calls' = w.calls
        /\ written' = IF w.key = NoneKey THEN written
                      ELSE Put(written, w.key,
                               Append(Get(written, w.key, <<>>),
                                      [timestamp |-> t, value |-> w.data_points[w.key].value]))
        /\ ret' = [op |-> "write",
                   arg |-> [key_or_address |-> key_or_address, value |-> value],
                   val |-> [key |-> w.key, raised |-> w.raised], err |-> "none"]
        /\ UNCHANGED <<key_to_address, address_to_key, key_to_id, id_to_key,
                       change_listeners, next_addresses, next_uuid, conflict_allowed>>
        /\ UNCHANGED aux_vars

\* DataStore.get_history

get_history(hists, key, limit) ==
    LET hist == Get(hists, key, <<>>)
    IN  IF limit > 0
        THEN SubSeq(hist, IF Len(hist) > limit THEN Len(hist) - limit + 1 ELSE 1, Len(hist))
        ELSE hist

GetHistory(key, limit) ==
    /\ ret' = [op |-> "get_history", arg |-> [key |-> key, limit |-> limit],
               val |-> get_history(history, key, limit), err |-> "none"]
    /\ calls' = <<>>
    /\ UNCHANGED <<data_points, key_to_address, address_to_key, key_to_id, id_to_key,
                   change_listeners, history, next_addresses, now, next_uuid, written,
                   conflict_allowed>>
    /\ UNCHANGED aux_vars

\* DataStore.add_change_listener
AddChangeListener(callback) ==
    /\ change_listeners' = Append(change_listeners, callback)
    /\ ret' = [op |-> "add_change_listener", arg |-> callback, val |-> 0, err |-> "none"]
    /\ calls' = <<>>
    /\ UNCHANGED <<data_points, key_to_address, address_to_key, key_to_id, id_to_key,
                   history, next_addresses, now, next_uuid, written, conflict_allowed>>
    /\ UNCHANGED aux_vars

\* no thread holds the lock
NoThread == "none"

\* the threads IPCServer starts, one per accepted connection
Handlers == {"h1", "h2"}

\* a handler thread that has no request
IdleThread ==
    [pc |-> "idle", req |-> <<>>, i |-> 0, key |-> NoneKey, old |-> PyNone,
     validated |-> PyNone, raised |-> FALSE, t |-> 0]

(***************************************************************************)
(* IPC endpoint (src/Data-Service/src/dataservice/core/ipc.py).            *)
(*                                                                         *)
(* A JSON value is the record [j, s, v, items, fields]:                    *)
(*   j = "null", "num", "str", "list" or "obj"; v is the Python value of a *)
(*   number, s the text of a string, items the elements of a list, fields  *)
(*   the members of an object.  A request line is [valid, json]: valid is  *)
(*   FALSE when json.loads raises.                                         *)
(***************************************************************************)
JNull == [j |-> "null", s |-> "", v |-> PyNone, items |-> <<>>, fields |-> EmptyDict]
JNum(v) == [j |-> "num", s |-> "", v |-> v, items |-> <<>>, fields |-> EmptyDict]
JStr(str) == [j |-> "str", s |-> str, v |-> PyNone, items |-> <<>>, fields |-> EmptyDict]
JList(items) == [j |-> "list", s |-> "", v |-> PyNone, items |-> items, fields |-> EmptyDict]
JObj(fields) == [j |-> "obj", s |-> "", v |-> PyNone, items |-> <<>>, fields |-> fields]

\* a request line json.loads parses
Line(json) == [valid |-> TRUE, json |-> json]

\* a line json.loads rejects
MalformedLine == [valid |-> FALSE, json |-> JNull]

\* dict.get(field) on a parsed object: None when the member is missing
JGet(obj, field) == Get(obj.fields, field, JNull)

\* the characters of the strings the requests carry as values
StrChars(str) ==
    CASE str = "abc" -> <<"a", "b", "c">>
      [] str = "17" -> <<"1", "7">>
      [] OTHER -> <<>>

\* the Python value json.loads makes of a scalar
FromJson(x) ==
    CASE x.j = "num" -> x.v
      [] x.j = "str" -> PyStrV(StrChars(x.s))
      [] OTHER -> PyNone

\* the uuid a string spells: "id1" is the first uuid4() drawn, "id2" the
\* second; "id9" and every other string spell a uuid no tag has
IdOf(str) ==
    CASE str = "id1" -> 1
      [] str = "id2" -> 2
      [] OTHER -> 0

\* isinstance(x, str) and x != ""
NonEmptyStr(x) == x.j = "str" /\ x.s # ""

\* str(e) of the AttributeError that x.get raises when x is no dict
AttributeErrorText(x) ==
    CASE x.j = "num" -> "'int' object has no attribute 'get'"
      [] x.j = "str" -> "'str' object has no attribute 'get'"
      [] x.j = "list" -> "'list' object has no attribute 'get'"
      [] OTHER -> "'NoneType' object has no attribute 'get'"

\* what _send writes to the connection
Response(ok, error, key, has_results, results) ==
    [sent |-> TRUE, ok |-> ok, error |-> error, key |-> key,
     has_results |-> has_results, results |-> results]

NoResponse ==
    [sent |-> FALSE, ok |-> FALSE, error |-> "", key |-> NoneKey,
     has_results |-> FALSE, results |-> <<>>]

\* the state a request has reached (the store's data points and history,
\* the listener calls made so far, the clock and the samples written) after
\* a DATA_STORE.write call at time t whose outcome is w
after_write(st, w, t) ==
    [data_points |-> w.data_points,
     history |-> w.history,
     calls |-> st.calls \o w.calls,
     now |-> t,
     written |-> IF w.key = NoneKey THEN st.written
                 ELSE Put(st.written, w.key,
                          Append(Get(st.written, w.key, <<>>),
                                 [timestamp |-> t,
                                  value |-> w.data_points[w.key].value]))]

\* one DATA_STORE.write(key, value) call of a handler, on the state st
ipc_write(st, key, value) ==
    after_write(st,
                write(st.data_points, st.history, address_to_key, change_listeners,
                      KeyArg(key), value, st.now + 1),
                st.now + 1)

\* the for loop of bulk_write_by_id over the updates left: the state
\* reached, the results gathered, and the text of the exception that ended
\* the loop ("" when it ran to its end)
RECURSIVE bulk_loop(_, _, _)
bulk_loop(st, updates, results) ==
    IF updates = <<>> THEN [st |-> st, results |-> results, raised |-> ""]
    ELSE LET update == Head(updates)
             data_id == JGet(update, "id")
             value == FromJson(JGet(update, "value"))
             key == Get(id_to_key, IdOf(data_id.s), NoneKey)
         IN  IF update.j # "obj"
             THEN [st |-> st, results |-> results, raised |-> AttributeErrorText(update)]
             ELSE IF ~NonEmptyStr(data_id)
             THEN bulk_loop(st, Tail(updates),
                            Append(results, [id |-> data_id, ok |-> FALSE, key |-> NoneKey,
                                             error |-> "id required"]))
             ELSE IF key = NoneKey
             THEN bulk_loop(st, Tail(updates),
                            Append(results, [id |-> data_id, ok |-> FALSE, key |-> NoneKey,
                                             error |-> "id not found"]))
             ELSE bulk_loop(ipc_write(st, key, value), Tail(updates),
                            Append(results, [id |-> data_id, ok |-> TRUE, key |-> key,
                                             error |-> ""]))

\* a handler's answer: the state the store is left in and the response sent
Answer(st, resp) == [st |-> st, resp |-> resp]

\* _handle_client, action "write"
handle_write(st, req) ==
    IF ~NonEmptyStr(JGet(req, "key"))
    THEN Answer(st, Response(FALSE, "key required", NoneKey, FALSE, <<>>))
    ELSE Answer(ipc_write(st, JGet(req, "key").s, FromJson(JGet(req, "value"))),
                Response(TRUE, "", NoneKey, FALSE, <<>>))

\* _handle_client, action "write_by_id"
handle_write_by_id(st, req) ==
    IF ~NonEmptyStr(JGet(req, "id"))
    THEN Answer(st, Response(FALSE, "id required", NoneKey, FALSE, <<>>))
    ELSE IF Get(id_to_key, IdOf(JGet(req, "id").s), NoneKey) = NoneKey
    THEN Answer(st, Response(FALSE, "id not found", NoneKey, FALSE, <<>>))
    ELSE Answer(ipc_write(st, id_to_key[IdOf(JGet(req, "id").s)],
                          FromJson(JGet(req, "value"))),
                Response(TRUE, "", id_to_key[IdOf(JGet(req, "id").s)], FALSE, <<>>))

\* the response to a bulk_write_by_id whose loop ended as b tells: the
\* handler's outer except answers for an exception that left the loop
bulk_answer(b) ==
    IF b.raised # ""
    THEN Answer(b.st, Response(FALSE, b.raised, NoneKey, FALSE, <<>>))
    ELSE Answer(b.st, Response(TRUE, "", NoneKey, TRUE, b.results))

\* _handle_client, action "bulk_write_by_id"
handle_bulk_write_by_id(st, req) ==
    IF JGet(req, "updates").j # "list"
    THEN Answer(st, Response(FALSE, "updates must be a list", NoneKey, FALSE, <<>>))
    ELSE bulk_answer(bulk_loop(st, JGet(req, "updates").items, <<>>))

\* IPCServer._handle_client on one request line: the state the store is
\* left in and the response sent
handle_client(st, line) ==
    IF ~line.valid
    THEN Answer(st, Response(FALSE, "invalid json", NoneKey, FALSE, <<>>))
    ELSE IF line.json.j # "obj"
    THEN Answer(st, Response(FALSE, AttributeErrorText(line.json), NoneKey, FALSE, <<>>))
    ELSE IF JGet(line.json, "action") = JStr("write")
    THEN handle_write(st, line.json)
    ELSE IF JGet(line.json, "action") = JStr("write_by_id")
    THEN handle_write_by_id(st, line.json)
    ELSE IF JGet(line.json, "action") = JStr("bulk_write_by_id")
    THEN handle_bulk_write_by_id(st, line.json)
    ELSE Answer(st, Response(FALSE, "unknown action", NoneKey, FALSE, <<>>))

\* a client connects, sends one line and reads the response
HandleClient(line) ==
    \E h \in {handle_client([data_points |-> data_points, history |-> history,
                             calls |-> <<>>, now |-> now, written |-> written], line)} :
        /\ data_points' = h.st.data_points
        /\ history' = h.st.history
        /\ calls' = h.st.calls
        /\ now' = h.st.now
        /\ written' = h.st.written
        /\ request' = line
        /\ response' = h.resp
        /\ ret' = [op |-> "ipc", arg |-> 0, val |-> 0, err |-> "none"]
        /\ UNCHANGED <<key_to_address, address_to_key, key_to_id, id_to_key,
                       change_listeners, next_addresses, next_uuid, conflict_allowed,
                       conc_vars, map_vars, srv_vars, svc_vars>>

(***************************************************************************)
(* Protocol mappings (core/mapping_store.py) and their bulk                *)
(* auto-generation (bulk_iec104_mapping.py, bulk_modbus_mapping.py).       *)
(***************************************************************************)
\* the characters of the keys, data types, units and keywords the
\* classifiers look at
Text(str) ==
    CASE str = "tempA" -> <<"t", "e", "m", "p", "A">>
      [] str = "motorOn" -> <<"m", "o", "t", "o", "r", "O", "n">>
      [] str = "counter" -> <<"c", "o", "u", "n", "t", "e", "r">>
      [] str = "power" -> <<"p", "o", "w", "e", "r">>
      [] str = "temp" -> <<"t", "e", "m", "p">>
      [] str = "float" -> <<"f", "l", "o", "a", "t">>
      [] str = "int" -> <<"i", "n", "t">>
      [] str = "bool" -> <<"b", "o", "o", "l">>
      [] str = "string" -> <<"s", "t", "r", "i", "n", "g">>
      [] str = "raw" -> <<"r", "a", "w">>
      [] str = "C" -> <<"C">>
      [] str = "kW" -> <<"k", "W">>
      [] str = "°c" -> <<"°", "c">>
      [] str = "°f" -> <<"°", "f">>
      [] str = "pressure" -> <<"p", "r", "e", "s", "s", "u", "r", "e">>
      [] str = "hpa" -> <<"h", "p", "a">>
      [] str = "bar" -> <<"b", "a", "r">>
      [] str = "psi" -> <<"p", "s", "i">>
      [] str = "flow" -> <<"f", "l", "o", "w">>
      [] str = "l/min" -> <<"l", "/", "m", "i", "n">>
      [] str = "m3/h" -> <<"m", "3", "/", "h">>
      [] str = "vibrat" -> <<"v", "i", "b", "r", "a", "t">>
      [] str = "mm/s" -> <<"m", "m", "/", "s">>
      [] str = "kw" -> <<"k", "w">>
      [] str = "w" -> <<"w">>
      [] str = "boolean" -> <<"b", "o", "o", "l", "e", "a", "n">>
      [] str = "status" -> <<"s", "t", "a", "t", "u", "s">>
      [] str = "enabled" -> <<"e", "n", "a", "b", "l", "e", "d">>
      [] str = "motor" -> <<"m", "o", "t", "o", "r">>
      [] str = "integer" -> <<"i", "n", "t", "e", "g", "e", "r">>
      [] str = "position" -> <<"p", "o", "s", "i", "t", "i", "o", "n">>
      [] str = "%" -> <<"%">>
      [] str = "code" -> <<"c", "o", "d", "e">>
      [] str = "alarm" -> <<"a", "l", "a", "r", "m">>
      [] str = "double" -> <<"d", "o", "u", "b", "l", "e">>
      [] str = "str" -> <<"s", "t", "r">>
      [] OTHER -> <<>>

\* str.lower() on the characters in use
lower(chars) ==
    [i \in 1..Len(chars) |->
        CASE chars[i] = "A" -> "a"
          [] chars[i] = "C" -> "c"
          [] chars[i] = "O" -> "o"
          [] chars[i] = "W" -> "w"
          [] OTHER -> chars[i]]

\* Python's `sub in chars` on strings
Contains(sub, chars) ==
    \E i \in 0..(Len(chars) - Len(sub)) : SubSeq(chars, i + 1, i + Len(sub)) = sub

\* ProtocolMapping.set_mapping
set_mapping(mappings, data_id, mapping) == Put(mappings, data_id, mapping)

\* ProtocolMapping.remove_mapping
remove_mapping(mappings, data_id) ==
    [x \in (DOMAIN mappings) \ {data_id} |-> mappings[x]]

\* the entry IEC104Mapping.set_mapping stores (the description is left out)
IEC104Entry(key, ioa, type_id, cause, quality, timestamp, access) ==
    [key |-> key, ioa |-> ioa, type |-> type_id, cause |-> cause,
     quality |-> quality, timestamp |-> timestamp, access |-> access]

\* the entry ModbusMapping.set_mapping stores (the description is left out)
ModbusEntry(key, register_address, function_code, data_type, access, endianess) ==
    [key |-> key, register_address |-> register_address,
     function_code |-> function_code, data_type |-> data_type, access |-> access,
     scaling_factor |-> 1, endianess |-> endianess]

\* bulk_iec104_mapping._map_to_iec104_data_type
_map_to_iec104_data_type(original_type_arg, units_arg, key_name_arg) ==
    LET original_type == lower(Text(original_type_arg))
        units == lower(Text(units_arg))
        key_name == lower(Text(key_name_arg))
        in_type(w) == Contains(Text(w), original_type)
        in_key(w) == Contains(Text(w), key_name)
        in_units(w) == Contains(Text(w), units)
        type_is(w) == original_type = Text(w)
    IN  IF in_type("temp") \/ in_key("temp") \/ in_units("°c") \/ in_units("°f")
        THEN "M_ME_NC_1"
        ELSE IF in_type("pressure") \/ in_key("pressure") \/ in_units("hpa")
                \/ in_units("bar") \/ in_units("psi")
        THEN "M_ME_NC_1"
        ELSE IF in_type("flow") \/ in_key("flow") \/ in_units("l/min") \/ in_units("m3/h")
        THEN "M_ME_NC_1"
        ELSE IF in_type("vibrat") \/ in_key("vibrat") \/ in_units("mm/s")
        THEN "M_ME_NC_1"
        ELSE IF in_type("power") \/ in_key("power") \/ in_units("kw") \/ in_units("w")
        THEN "M_ME_NC_1"
        ELSE IF type_is("bool") \/ type_is("boolean") \/ in_key("status")
                \/ in_key("enabled") \/ in_key("motor")
        THEN "M_SP_NA_1"
        ELSE IF type_is("int") \/ type_is("integer")
        THEN "M_ME_NB_1"
        ELSE "M_ME_NC_1"

\* bulk_iec104_mapping._get_iec104_cause_of_transmission
_get_iec104_cause_of_transmission(data_type) ==
    IF data_type = "M_SP_NA_1" THEN "spontaneous"
    ELSE IF data_type \in {"M_ME_NC_1", "M_ME_NB_1"} THEN "periodic"
    ELSE "spontaneous"

\* type_ranges of _allocate_ioa_by_type: (start_range, end_range)
iec104_type_ranges(data_type) ==
    CASE data_type = "M_ME_NC_1" -> <<1000, 2000>>
      [] data_type = "M_ME_NB_1" -> <<2000, 3000>>
      [] data_type = "M_SP_NA_1" -> <<3000, 4000>>
      [] data_type = "M_ME_NA_1" -> <<4000, 5000>>
      [] data_type = "M_ME_NF_1" -> <<5000, 6000>>
      [] OTHER -> <<1000, 10000>>

\* _allocate_ioa_by_type without the padding between data types
_allocate_ioa_unpadded(current_ioa, data_type) ==
    LET start_range == iec104_type_ranges(data_type)[1]
        end_range == iec104_type_ranges(data_type)[2]
    IN  IF current_ioa + 1 > end_range THEN start_range
        ELSE current_ioa

\* bulk_iec104_mapping._allocate_ioa_by_type
_allocate_ioa_by_type(current_ioa, data_type) ==
    LET start_range == iec104_type_ranges(data_type)[1]
        end_range == iec104_type_ranges(data_type)[2]
    IN  IF current_ioa + 1 > end_range THEN start_range
        ELSE IF current_ioa < start_range THEN start_range
        ELSE current_ioa

\* the bulk generators' search of the detailed snapshot for the data point
\* of an id: its key, NoneKey when no registered tag has the id
find_data_point(data_id) ==
    LET found == {key \in DOMAIN data_points : Get(key_to_id, key, 0) = data_id}
    IN  IF found = {} THEN NoneKey ELSE CHOOSE key \in found : TRUE

\* the for loop of auto_generate_iec104_mappings from the i-th id on
\* (i counts from 0): the registry, the results and the cursor it ends with
RECURSIVE iec104_loop(_, _, _, _, _, _, _)
iec104_loop(mappings, data_ids, i, current_ioa, start_ioa, padding_strategy, results) ==
    IF i >= Len(data_ids)
    THEN [mappings |-> mappings, results |-> results, current |-> current_ioa]
    ELSE LET data_id == data_ids[i + 1]
             key == find_data_point(data_id)
         IN  IF key = NoneKey
             THEN iec104_loop(mappings, data_ids, i + 1, current_ioa, start_ioa,
                              padding_strategy,
                              Append(results, [data_id |-> data_id, ok |-> FALSE,
                                               key |-> NoneKey, locator |-> 0,
                                               type |-> "", register_count |-> 0]))
             ELSE LET dp == data_points[key]
                      iec104_data_type ==
                          _map_to_iec104_data_type(dp.data_type, dp.units, key)
                      ioa == IF padding_strategy = "data_type"
                             THEN _allocate_ioa_by_type(current_ioa, iec104_data_type)
                             ELSE start_ioa + i
                      entry == IEC104Entry(key, ioa, iec104_data_type,
                                  _get_iec104_cause_of_transmission(iec104_data_type),
                                  TRUE, TRUE, "r")
                  IN  iec104_loop(set_mapping(mappings, data_id, entry), data_ids, i + 1,
                                  ioa + 1, start_ioa, padding_strategy,
                                  Append(results, [data_id |-> data_id, ok |-> TRUE,
                                                   key |-> key, locator |-> ioa,
                                                   type |-> iec104_data_type,
                                                   register_count |-> 1]))

\* bulk_modbus_mapping._map_to_modbus_data_type
_map_to_modbus_data_type(original_type_arg, units_arg) ==
    LET original_type == lower(Text(original_type_arg))
        units == lower(Text(units_arg))
        in_type(w) == Contains(Text(w), original_type)
        in_units(w) == Contains(Text(w), units)
        type_is(w) == original_type = Text(w)
    IN  IF in_type("temp") \/ in_units("°c") \/ in_units("°f") THEN "float32"
        ELSE IF in_type("pressure") \/ in_units("hpa") \/ in_units("bar")
                \/ in_units("psi")
        THEN "float32"
        ELSE IF in_type("flow") \/ in_units("l/min") \/ in_units("m3/h") THEN "float32"
        ELSE IF in_type("vibrat") \/ in_units("mm/s") THEN "float32"
        ELSE IF in_type("power") \/ in_units("kw") \/ in_units("w") THEN "float32"
        ELSE IF type_is("bool") \/ type_is("boolean") THEN "int16"
        ELSE IF type_is("int") \/ type_is("integer")
        THEN IF in_type("position") \/ in_units("%") THEN "int16"
             ELSE IF in_type("status") \/ in_type("code") \/ in_type("alarm") THEN "int16"
             ELSE "int32"
        ELSE IF type_is("float") \/ type_is("double") THEN "float32"
        ELSE IF type_is("string") \/ type_is("str") THEN "string8"
        ELSE "int16"

\* bulk_modbus_mapping._get_register_count
_get_register_count(modbus_data_type) ==
    CASE modbus_data_type \in {"int16", "uint16", "bool"} -> 1
      [] modbus_data_type \in {"int32", "uint32", "float32"} -> 2
      [] modbus_data_type = "string8" -> 4
      [] modbus_data_type = "string16" -> 8
      [] OTHER -> 1

\* type_ranges of _allocate_address_by_type: (start_range, end_range)
modbus_type_ranges(data_type) ==
    CASE data_type = "float32" -> <<40001, 41000>>
      [] data_type = "int32" -> <<41001, 42000>>
      [] data_type = "int16" -> <<42001, 43000>>
      [] data_type = "string8" -> <<43001, 44000>>
      [] data_type = "string16" -> <<44001, 45000>>
      [] data_type = "bool" -> <<45001, 46000>>
      [] OTHER -> <<40001, 50000>>

\* bulk_modbus_mapping._allocate_address_by_type
_allocate_address_by_type(current_address, data_type, register_count) ==
    LET start_range == modbus_type_ranges(data_type)[1]
        end_range == modbus_type_ranges(data_type)[2]
    IN  IF current_address + register_count > end_range THEN start_range
        ELSE IF current_address < start_range THEN start_range
        ELSE current_address

\* the for loop of auto_generate_modbus_mappings from the i-th id on
RECURSIVE modbus_loop(_, _, _, _, _, _, _)
modbus_loop(mappings, data_ids, i, current_address, start_address, padding_strategy, results) ==
    IF i >= Len(data_ids)
    THEN [mappings |-> mappings, results |-> results, current |-> current_address]
    ELSE LET data_id == data_ids[i + 1]
             key == find_data_point(data_id)
         IN  IF key = NoneKey
             THEN modbus_loop(mappings, data_ids, i + 1, current_address, start_address,
                              padding_strategy,
                              Append(results, [data_id |-> data_id, ok |-> FALSE,
                                               key |-> NoneKey, locator |-> 0,
                                               type |-> "", register_count |-> 0]))
             ELSE LET dp == data_points[key]
                      modbus_data_type == _map_to_modbus_data_type(dp.data_type, dp.units)
                      register_count == _get_register_count(modbus_data_type)
                      address == IF padding_strategy = "data_type"
                                 THEN _allocate_address_by_type(current_address,
                                                                modbus_data_type,
                                                                register_count)
                                 ELSE start_address + (i * register_count)
                      entry == ModbusEntry(key, address, 3, modbus_data_type, "rw", "big")
                  IN  modbus_loop(set_mapping(mappings, data_id, entry), data_ids, i + 1,
                                  address + register_count, start_address,
                                  padding_strategy,
                                  Append(results, [data_id |-> data_id, ok |-> TRUE,
                                                   key |-> key, locator |-> address,
                                                   type |-> modbus_data_type,
                                                   register_count |-> register_count]))

\* the record of a call on a mapping registry: the n-th call, its
\* arguments and, for a bulk generation, its results
MapCall(n, protocol, op, data_ids, start, padding_strategy, results) ==
    [n |-> n, protocol |-> protocol, op |-> op, data_ids |-> data_ids,
     start |-> start, padding_strategy |-> padding_strategy, results |-> results]

\* what the mapping calls leave alone
map_unchanged ==
    UNCHANGED <<data_points, key_to_address, address_to_key, key_to_id, id_to_key,
                change_listeners, history, next_addresses, now, next_uuid, ret, calls,
                written, conflict_allowed, conc_vars, ipc_vars, srv_vars, svc_vars>>

\* IEC104_MAPPING.set_mapping(data_id, key, ioa, type_id)
IEC104SetMapping(data_id, key, ioa, type_id) ==
    /\ iec104_mappings' = set_mapping(iec104_mappings, data_id,
                              IEC104Entry(key, ioa, type_id, "spontaneous", TRUE, TRUE, "r"))
    /\ map_call' = MapCall(map_call.n + 1, "iec104", "set", <<data_id>>, ioa, "", <<>>)
    /\ UNCHANGED modbus_mappings
    /\ map_unchanged

\* MODBUS_MAPPING.set_mapping(data_id, key, register_address, data_type=data_type)
ModbusSetMapping(data_id, key, register_address, data_type) ==
    /\ modbus_mappings' = set_mapping(modbus_mappings, data_id,
                              ModbusEntry(key, register_address, 3, data_type, "rw", "big"))
    /\ map_call' = MapCall(map_call.n + 1, "modbus", "set", <<data_id>>, register_address,
                           "", <<>>)
    /\ UNCHANGED iec104_mappings
    /\ map_unchanged

\* IEC104_MAPPING.remove_mapping(data_id)
IEC104RemoveMapping(data_id) ==
    /\ iec104_mappings' = remove_mapping(iec104_mappings, data_id)
    /\ map_call' = MapCall(map_call.n + 1, "iec104", "remove", <<data_id>>, 0, "", <<>>)
    /\ UNCHANGED modbus_mappings
    /\ map_unchanged

\* MODBUS_MAPPING.remove_mapping(data_id)
ModbusRemoveMapping(data_id) ==
    /\ modbus_mappings' = remove_mapping(modbus_mappings, data_id)
    /\ map_call' = MapCall(map_call.n + 1, "modbus", "remove", <<data_id>>, 0, "", <<>>)
    /\ UNCHANGED iec104_mappings
    /\ map_unchanged

\* auto_generate_iec104_mappings(data_ids, start_ioa, padding_strategy)
AutoGenerateIEC104(data_ids, start_ioa, padding_strategy) ==
    LET r == iec104_loop(iec104_mappings, data_ids, 0, start_ioa, start_ioa,
                         padding_strategy, <<>>)
    IN  /\ iec104_mappings' = r.mappings
        /\ map_call' = MapCall(map_call.n + 1, "iec104", "bulk", data_ids, start_ioa,
                               padding_strategy, r.results)
        /\ UNCHANGED modbus_mappings
        /\ map_unchanged

\* auto_generate_modbus_mappings(data_ids, start_address, padding_strategy)
AutoGenerateModbus(data_ids, start_address, padding_strategy) ==
    LET r == modbus_loop(modbus_mappings, data_ids, 0, start_address, start_address,
                         padding_strategy, <<>>)
    IN  /\ modbus_mappings' = r.mappings
        /\ map_call' = MapCall(map_call.n + 1, "modbus", "bulk", data_ids, start_address,
                               padding_strategy, r.results)
        /\ UNCHANGED iec104_mappings
        /\ map_unchanged

(***************************************************************************)
(* servers/modbus_server.py: the publisher tick of the Modbus TCP server.  *)
(* holding_registers holds the words of the data bank that were ever set;  *)
(* every other register is 0.                                              *)
(***************************************************************************)
\* no tick has run yet
NoTick == [n |-> 0, updates |-> EmptyDict, error |-> ""]

\* 2 to the power p
RECURSIVE Pow2(_)
Pow2(p) == IF p = 0 THEN 1 ELSE 2 * Pow2(p - 1)

\* struct.pack('>f', x) read back with struct.unpack('>HH', ...): the two
\* 16-bit words of the IEEE-754 single of x, sign and exponent first, for
\* x given in halves with |x| < 2^23 (such an x is exact in a single)
float32_registers(h) ==
    IF h = 0 THEN <<0, 0>>
    ELSE LET a == IF h < 0 THEN 0 - h ELSE h
             p == CHOOSE q \in 0..24 : Pow2(q) <= a /\ a < Pow2(q + 1)
             exponent == (p - 1) + 127
             fraction == (a - Pow2(p)) * Pow2(23 - p)
         IN  <<(IF h < 0 THEN 32768 ELSE 0) + exponent * 128 + fraction \div 65536,
               fraction % 65536>>

\* DataBank._value_to_registers on a float given in halves; int() raises
\* only on inf and nan and struct.pack only beyond the float32 range,
\* which the values of the model never are, so the except branch is never
\* taken
_value_to_registers(value, data_type) ==
    CASE data_type = "float32" -> float32_registers(value)
      [] data_type = "int32" ->
            <<(TruncHalves(value) \div 65536) % 65536, TruncHalves(value) % 65536>>
      [] data_type = "int16" -> <<TruncHalves(value) % 65536>>
      [] data_type = "uint16" ->
            <<TruncHalves(IF value < 0 THEN 0 - value ELSE value) % 65536>>
      [] OTHER -> <<TruncHalves(value) % 65536>>

\* register_updates[register_address + i] = reg_value for every register
store_registers(register_updates, register_address, registers) ==
    [a \in DOMAIN register_updates
              \cup (register_address..(register_address + Len(registers) - 1)) |->
        IF a \in register_address..(register_address + Len(registers) - 1)
        THEN registers[a - register_address + 1]
        ELSE register_updates[a]]

\* one pass of the for loop of update_from_mappings, on the mapping of
\* data_id and the value read for its key: the updates gathered, and the
\* text of the exception float(value) raised
update_entry(register_updates, mapping, value) ==
    IF value = PyNone
    THEN [raised |-> "", register_updates |-> register_updates]
    ELSE IF ~PyFloat(value).ok
    THEN [raised |-> "could not convert string to float",
          register_updates |-> register_updates]
    ELSE [raised |-> "",
          register_updates |->
              store_registers(register_updates, mapping.register_address,
                  _value_to_registers(PyFloat(value).val.n * mapping.scaling_factor,
                                      mapping.data_type))]

\* the for loop of update_from_mappings over the entries of ids, in the
\* order of the ids
RECURSIVE update_loop(_, _, _, _)
update_loop(mappings, dps, ids, done) ==
    IF ids = {} \/ done.raised # "" THEN done
    ELSE update_loop(mappings, dps,
                     ids \ {CHOOSE i \in ids : \A j \in ids : i <= j},
                     update_entry(done.register_updates,
                                  mappings[CHOOSE i \in ids : \A j \in ids : i <= j],
                                  read(dps, address_to_key,
                                       KeyArg(mappings[CHOOSE i \in ids :
                                                          \A j \in ids : i <= j].key))))

\* the end of update_from_mappings: the updates are written into the data
\* bank, unless an exception left the loop; registers between two updated
\* ones are written back as they were read
apply_updates(registers, looped) ==
    IF looped.raised # ""
    THEN [holding_registers |-> registers, updates |-> EmptyDict, error |-> looped.raised]
    ELSE [holding_registers |->
              [a \in DOMAIN registers \cup DOMAIN looped.register_updates |->
                  IF a \in DOMAIN looped.register_updates
                  THEN looped.register_updates[a]
                  ELSE registers[a]],
          updates |-> looped.register_updates,
          error |-> ""]

\* DataBank.update_from_mappings, the server running
update_from_mappings(mappings, dps, registers) ==
    apply_updates(registers,
                  update_loop(mappings, dps, DOMAIN mappings,
                              [raised |-> "", register_updates |-> EmptyDict]))

\* what the servers leave alone: the store, the handlers and the registries
srv_unchanged ==
    UNCHANGED <<data_points, key_to_address, address_to_key, key_to_id, id_to_key,
                change_listeners, history, next_addresses, now, next_uuid, ret, calls,
                written, conflict_allowed, conc_vars, ipc_vars, map_vars, svc_vars>>

\* one pass of the loop of modbus_server_thread
ModbusTick ==
    \E r \in {update_from_mappings(modbus_mappings, data_points, holding_registers)} :
        /\ holding_registers' = r.holding_registers
        /\ modbus_tick' = [n |-> modbus_tick.n + 1, updates |-> r.updates,
                           error |-> r.error]
        /\ UNCHANGED <<stop_event, iec104_server, client_sockets, iec104_round,
                       server_threads, opcua_nodes, opcua_mappings, snmp_mappings>>
        /\ srv_unchanged

\* MODBUS_MAPPING.set_mapping(data_id, key, register_address,
\* data_type=data_type, endianess=endianess)
ModbusSetMappingEndian(data_id, key, register_address, data_type, endianess) ==
    /\ modbus_mappings' = set_mapping(modbus_mappings, data_id,
                              ModbusEntry(key, register_address, 3, data_type, "rw",
                                          endianess))
    /\ map_call' = MapCall(map_call.n + 1, "modbus", "set", <<data_id>>, register_address,
                           "", <<>>)
    /\ UNCHANGED iec104_mappings
    /\ map_unchanged

(***************************************************************************)
(* servers/iec104_server.py: basic_iec104_server, the built-in fallback.   *)
(* A frame is the sequence of its bytes.                                   *)
(***************************************************************************)
Clients == 1..MaxClients

\* the function has not been called yet: server_socket and clients are
\* unbound local names
NotStarted ==
    [pc |-> "start", server_socket |-> "unbound", clients_bound |-> FALSE,
     clients |-> <<>>, last_send_time |-> 0]

\* a client that has not connected: no socket, nothing sent, no send failed
NoSocket == [state |-> "none", received |-> <<>>, failed |-> FALSE]

NoRound == [n |-> 0, broadcast |-> FALSE, frames |-> <<>>, error |-> ""]

\* bytes([0x68, 0x04, 0x07, 0x00, 0x00, 0x00])
startdt_act == <<104, 4, 7, 0, 0, 0>>

\* struct.pack('<H', x)
pack_H(x) == <<x % 256, (x \div 256) % 256>>

\* struct.pack('<I', x), for 0 <= x < 2^31
pack_I(x) == <<x % 256, (x \div 256) % 256, (x \div 65536) % 256, (x \div 16777216) % 256>>

\* struct.pack('<f', x) for x given in halves: the bytes of the single,
\* lowest first
pack_f(h) ==
    pack_H(float32_registers(h)[2]) \o pack_H(float32_registers(h)[1])

\* the frame lines 81-99 build for an IOA and a float given in halves
asdu_frame(ioa, h) ==
    LET asdu_data == <<9, 1, 3, 0>> \o pack_H(1) \o pack_I(ioa) \o pack_f(h) \o <<0, 0, 0>>
    IN  <<104, Len(asdu_data)>> \o asdu_data

\* client.send(frame): the frame is sent, or the call raises
send(sockets, client, frame, ok) ==
    IF ok THEN [sockets EXCEPT ![client].received = Append(@, frame)]
    ELSE [sockets EXCEPT ![client].failed = TRUE]

\* client.close()
close(sockets, client) == [sockets EXCEPT ![client].state = "closed"]

\* the for loop over clients of lines 102-113: the frame is sent to each
\* client of the list; those of fails raise, are closed and left out of
\* connected_clients
RECURSIVE send_to_clients(_, _, _, _, _)
send_to_clients(sockets, clients, frame, fails, connected_clients) ==
    IF clients = <<>> THEN [sockets |-> sockets, clients |-> connected_clients]
    ELSE IF Head(clients) \in fails
    THEN send_to_clients(close(send(sockets, Head(clients), frame, FALSE), Head(clients)),
                         Tail(clients), frame, fails, connected_clients)
    ELSE send_to_clients(send(sockets, Head(clients), frame, TRUE),
                         Tail(clients), frame, fails,
                         Append(connected_clients, Head(clients)))

\* the pass over one mapping, lines 74-113, on what the loop has reached
broadcast_entry(reached, meta, value, fails) ==
    IF value = PyNone THEN reached
    ELSE IF ~PyFloat(value).ok
    THEN [reached EXCEPT !.error = "could not convert string to float"]
    ELSE [reached EXCEPT
            !.sent = send_to_clients(reached.sent.sockets, reached.sent.clients,
                                     asdu_frame(meta.ioa, PyFloat(value).val.n),
                                     fails \cap {reached.sent.clients[i] :
                                                    i \in 1..Len(reached.sent.clients)},
                                     <<>>),
            !.frames = Append(@, [ioa |-> meta.ioa, value |-> PyFloat(value).val.n,
                                  frame |-> asdu_frame(meta.ioa, PyFloat(value).val.n)])]

\* the for loop over maps.items() of lines 73-113, in the order of the ids,
\* until an exception leaves it
RECURSIVE broadcast(_, _, _, _)
broadcast(mappings, ids, fails, reached) ==
    IF ids = {} \/ reached.error # "" THEN reached
    ELSE broadcast(mappings, ids \ {CHOOSE i \in ids : \A j \in ids : i <= j}, fails,
                   broadcast_entry(reached,
                                   mappings[CHOOSE i \in ids : \A j \in ids : i <= j],
                                   read(data_points, address_to_key,
                                        KeyArg(mappings[CHOOSE i \in ids :
                                                    \A j \in ids : i <= j].key)),
                                   fails))

\* lines 52-66: accept times out, raises, or returns the socket of a
\* client, which is appended to clients and sent STARTDT act; a send that
\* raises is caught with the accept errors
accept(sent, accepted, startdt_ok) ==
    IF accepted = 0 THEN sent
    ELSE [sockets |-> send([sent.sockets EXCEPT ![accepted].state = "open"],
                           accepted, startdt_act, startdt_ok),
          clients |-> Append(sent.clients, accepted)]

\* lines 69-115: the broadcast, when there are clients and it is due
send_data(server, sent, due, fails) ==
    IF sent.clients # <<>> /\ due
    THEN broadcast(iec104_mappings, DOMAIN iec104_mappings, fails,
                   [sent |-> sent, frames |-> <<>>, error |-> ""])
    ELSE [sent |-> sent, frames |-> <<>>, error |-> ""]

\* the state of the server after one pass of the while loop
after_pass(server, sent, due, done) ==
    [server EXCEPT !.clients = done.sent.clients,
                   !.last_send_time =
                       IF sent.clients # <<>> /\ due /\ done.error = ""
                       THEN iec104_round.n + 1 ELSE @]

\* what the IEC-104 fallback server leaves alone
iec104_unchanged ==
    /\ UNCHANGED <<holding_registers, modbus_tick, server_threads, opcua_nodes,
                   opcua_mappings, snmp_mappings>>
    /\ srv_unchanged

\* the statements before the loop, lines 37-47: socket(), bind() or
\* listen() may raise; the handler of line 123 prints, and the finally
\* block of lines 125-135 iterates over clients, a name not yet bound,
\* which raises UnboundLocalError before server_socket.close() is reached
Iec104Start(outcome) ==
    /\ iec104_server.pc = "start"
    /\ iec104_server' =
          CASE outcome = "ok" ->
                  [iec104_server EXCEPT !.pc = "loop", !.server_socket = "open",
                                        !.clients_bound = TRUE]
            [] outcome = "socket" -> [iec104_server EXCEPT !.pc = "escaped"]
            [] OTHER -> [iec104_server EXCEPT !.pc = "escaped", !.server_socket = "open"]
    /\ UNCHANGED <<stop_event, client_sockets, iec104_round>>
    /\ iec104_unchanged

\* one pass of the while loop, lines 49-121: accepted is the client whose
\* connection accept returns (0 for a timeout or an error), startdt_ok
\* tells whether the send of STARTDT act succeeds, due whether 2 s have
\* passed since the last broadcast, fails the clients whose next send raises
Iec104Pass(accepted, startdt_ok, due, fails) ==
    /\ iec104_server.pc = "loop"
    /\ ~stop_event
    /\ accepted # 0 => client_sockets[accepted].state = "none"
    /\ \E sent \in {accept([sockets |-> client_sockets, clients |-> iec104_server.clients],
                           accepted, startdt_ok)} :
       \E done \in {send_data(iec104_server, sent,
                              due \/ iec104_server.last_send_time = 0, fails)} :
          /\ client_sockets' = done.sent.sockets
          /\ iec104_server' = after_pass(iec104_server, sent,
                                         due \/ iec104_server.last_send_time = 0, done)
          /\ iec104_round' = [n |-> iec104_round.n + 1,
                              broadcast |-> sent.clients # <<>>
                                            /\ (due \/ iec104_server.last_send_time = 0),
                              frames |-> done.frames,
                              error |-> done.error]
    /\ UNCHANGED stop_event
    /\ iec104_unchanged

\* the loop sees the stop signal: the finally block of lines 125-135
\* closes every client of the list and the listener, and the function returns
Iec104Exit ==
    /\ iec104_server.pc = "loop"
    /\ stop_event
    /\ client_sockets' =
          [c \in Clients |->
              IF \E i \in 1..Len(iec104_server.clients) : iec104_server.clients[i] = c
              THEN [client_sockets[c] EXCEPT !.state = "closed"]
              ELSE client_sockets[c]]
    /\ iec104_server' = [iec104_server EXCEPT !.pc = "returned",
                                              !.server_socket = "closed"]
    /\ UNCHANGED <<stop_event, iec104_round>>
    /\ iec104_unchanged

\* stop_event.set()
SetStop ==
    /\ stop_event' = TRUE
    /\ UNCHANGED <<iec104_server, client_sockets, iec104_round>>
    /\ iec104_unchanged

(***************************************************************************)
(* The loops of the server threads: modbus_server_thread,                  *)
(* opcua_server_thread and snmp_server_thread.                             *)
(***************************************************************************)
\* a server thread: where it is, the passes of its loop it has made, and
\* the exception that ended it
Thread(state) == [state |-> state, passes |-> 0, error |-> "", in_tick |-> FALSE]

\* one more pass of the loop, the thread going on
next_pass(thread) == [thread EXCEPT !.passes = @ + 1]

\* the exception leaves the thread's function
terminate(thread, error, in_tick) ==
    [thread EXCEPT !.state = "terminated", !.error = error, !.in_tick = in_tick]

\* one pass of the while loop of modbus_server_thread, lines 120-134:
\* update_from_mappings catches what its tick raises, and the try of the
\* loop whatever else
ModbusLoopPass ==
    /\ server_threads.modbus.state = "running"
    /\ ~stop_event
    /\ \E r \in {update_from_mappings(modbus_mappings, data_points, holding_registers)} :
          /\ holding_registers' = r.holding_registers
          /\ modbus_tick' = [n |-> modbus_tick.n + 1, updates |-> r.updates,
                             error |-> r.error]
    /\ server_threads' = [server_threads EXCEPT !.modbus = next_pass(@)]
    /\ UNCHANGED <<stop_event, iec104_server, client_sockets, iec104_round, opcua_nodes,
                   opcua_mappings, snmp_mappings>>
    /\ srv_unchanged

\* int(value) of the OPC-UA loop: truncates a float, parses a string of
\* digits with an optional sign, raises on any other string and on None
int_of(value) ==
    CASE value.t \in {"int", "bool"} -> [ok |-> TRUE, val |-> PyIntV(value.n)]
      [] value.t = "float" -> [ok |-> TRUE, val |-> PyIntV(TruncHalves(value.n))]
      [] value.t = "str" ->
            IF value.s # <<>> /\ value.s[1] \in {"-", "+"} /\ AllDigits(Tail(value.s))
            THEN [ok |-> TRUE,
                  val |-> PyIntV(IF value.s[1] = "-" THEN 0 - StrToNat(Tail(value.s))
                                 ELSE StrToNat(Tail(value.s)))]
            ELSE IF AllDigits(value.s)
            THEN [ok |-> TRUE, val |-> PyIntV(StrToNat(value.s))]
            ELSE [ok |-> FALSE, val |-> PyNone]
      [] OTHER -> [ok |-> FALSE, val |-> PyNone]

\* opcua_server_final.coerce_value_for_opcua
coerce_value_for_opcua(value) ==
    CASE value.t = "none" -> PyFloatV(0)
      [] value.t \in {"bool", "int", "float"} -> value
      [] value.t = "str" ->
            IF \E i \in 1..Len(value.s) : value.s[i] = "."
            THEN IF PyFloat(value).ok THEN PyFloat(value).val ELSE value
            ELSE IF int_of(value).ok THEN int_of(value).val ELSE value
      [] OTHER -> PyStr(value).val

\* lines 142-150: the store value coerced to the type the variable was
\* created with
to_expected_type(expected_type, value) ==
    CASE expected_type = "float" ->
            IF value = PyNone THEN [ok |-> TRUE, val |-> PyFloatV(0)] ELSE PyFloat(value)
      [] expected_type = "int" ->
            IF value = PyNone THEN [ok |-> TRUE, val |-> PyIntV(0)] ELSE int_of(value)
      [] expected_type = "bool" -> PyBool(value)
      [] OTHER -> IF value = PyNone THEN [ok |-> TRUE, val |-> PyStrV(<<>>)] ELSE PyStr(value)

\* the entry OPCUAMapping.set_mapping stores at lines 110-128 (names,
\* value rank, timestamps and description left out); an existing mapping
\* keeps its data type
OPCUAEntry(existing, has_existing, key, node_id) ==
    [key |-> key, node_id |-> node_id,
     data_type |-> IF has_existing THEN existing.data_type ELSE "Float",
     access_level |-> IF has_existing THEN existing.access_level
                      ELSE "CurrentReadOrWrite",
     namespace |-> 2]

NoOPCUAEntry == OPCUAEntry([data_type |-> "", access_level |-> ""], TRUE, NoneKey, 0)

\* lines 84-135: the variable of a key seen for the first time is created
\* with the coerced value and the next NodeId of the server, the key is
\* given an id and the mapping of that id gets the NodeId
create_variable(st, key, coerced, ids) ==
    [nodes |-> Put(st.nodes, key,
                   [type |-> coerced.t, value |-> coerced,
                    node_id |-> Cardinality(DOMAIN st.nodes) + 1]),
     mappings |-> set_mapping(st.mappings, ids.k2i[key],
                      OPCUAEntry(Get(st.mappings, ids.k2i[key], NoOPCUAEntry),
                                 ids.k2i[key] \in DOMAIN st.mappings, key,
                                 Cardinality(DOMAIN st.nodes) + 1)),
     k2i |-> ids.k2i,
     i2k |-> ids.i2k,
     next_uuid |-> IF ids.minted THEN st.next_uuid + 1 ELSE st.next_uuid]

\* lines 138-154: set_value with the store value coerced to the expected
\* type; a failing coercion or a failing set_value is caught and printed
update_variable(st, key, value, fails) ==
    IF fails \/ ~to_expected_type(st.nodes[key].type, value).ok THEN st
    ELSE [st EXCEPT !.nodes[key].value = to_expected_type(st.nodes[key].type, value).val]

\* the body of the for loop of lines 82-154 for one key of the snapshot;
\* fails tells that the library call on the key's variable raises
\* (add_variable for a new key, set_value for a known one)
opcua_key(st, key, value, fails) ==
    IF key \notin DOMAIN st.nodes
    THEN IF fails THEN st
         ELSE update_variable(
                  create_variable(st, key, coerce_value_for_opcua(value),
                                  ensure_id(st.k2i, st.i2k, key, st.next_uuid + 1)),
                  key, value, FALSE)
    ELSE update_variable(st, key, value, fails)

\* the keys of DATA_STORE.snapshot() in the order the tags were registered
\* in: the specifications register temp, then counter, then label
snapshot_keys(dps) ==
    LET present(k) == k \in DOMAIN dps
    IN  SelectSeq(<<"temp", "counter", "label">>, present)

\* the for loop of lines 82-154 over the keys left
RECURSIVE opcua_loop(_, _, _, _)
opcua_loop(st, dps, keys, faults) ==
    IF keys = <<>> THEN st
    ELSE opcua_loop(opcua_key(st, Head(keys), dps[Head(keys)].value,
                              Head(keys) \in faults),
                    dps, Tail(keys), faults)

\* one pass of the while loop of opcua_server_thread, lines 77-160: every
\* exception of the pass is caught inside the loop
OpcuaLoopPass(faults) ==
    /\ server_threads.opcua.state = "running"
    /\ ~stop_event
    /\ \E st \in {opcua_loop([nodes |-> opcua_nodes, mappings |-> opcua_mappings,
                              k2i |-> key_to_id, i2k |-> id_to_key,
                              next_uuid |-> next_uuid],
                             data_points, snapshot_keys(data_points), faults)} :
          /\ opcua_nodes' = st.nodes
          /\ opcua_mappings' = st.mappings
          /\ key_to_id' = st.k2i
          /\ id_to_key' = st.i2k
          /\ next_uuid' = st.next_uuid
    /\ server_threads' = [server_threads EXCEPT !.opcua = next_pass(@)]
    /\ UNCHANGED <<holding_registers, modbus_tick, stop_event, iec104_server,
                   client_sockets, iec104_round, snmp_mappings>>
    /\ UNCHANGED <<data_points, key_to_address, address_to_key, change_listeners, history,
                   next_addresses, now, ret, calls, written, conflict_allowed, conc_vars,
                   ipc_vars, map_vars, svc_vars>>

\* a client of the OPC-UA server writes value to the variable of key: the
\* variables are writable (line 89) and the server attaches no handler to
\* them, so the value stays in the variable and nothing else is called
OpcuaClientWrite(key, value) ==
    /\ server_threads.opcua.state = "running"
    /\ key \in DOMAIN opcua_nodes
    /\ opcua_nodes' = [opcua_nodes EXCEPT ![key].value = value]
    /\ UNCHANGED <<holding_registers, modbus_tick, stop_event, iec104_server,
                   client_sockets, iec104_round, server_threads, opcua_mappings,
                   snmp_mappings>>
    /\ srv_unchanged

\* the entry SNMPMapping.set_mapping stores (the description is left out)
SNMPEntry(key, oid, syntax) ==
    [key |-> key, oid |-> oid, syntax |-> syntax, access |-> "read-only", index |-> "None"]

\* SNMP_MAPPING.set_mapping(data_id, key, oid, syntax)
SNMPSetMapping(data_id, key, oid, syntax) ==
    /\ snmp_mappings' = set_mapping(snmp_mappings, data_id, SNMPEntry(key, oid, syntax))
    /\ UNCHANGED <<holding_registers, modbus_tick, stop_event, iec104_server,
                   client_sockets, iec104_round, server_threads, opcua_nodes,
                   opcua_mappings>>
    /\ srv_unchanged

\* snmp_server_thread up to its loop, lines 44-87: line 85 reads
\* SNMP_MAPPING.enterprise_oid, an attribute SNMPMapping does not define;
\* the read raises AttributeError, outside any try, unless the attribute
\* was set from outside
SnmpStart(has_enterprise_oid) ==
    /\ server_threads.snmp.state = "start"
    /\ server_threads' =
          [server_threads EXCEPT !.snmp =
              IF has_enterprise_oid THEN [@ EXCEPT !.state = "running"]
              ELSE terminate(@, "AttributeError: enterprise_oid", FALSE)]
    /\ UNCHANGED <<holding_registers, modbus_tick, stop_event, iec104_server,
                   client_sockets, iec104_round, opcua_nodes, opcua_mappings,
                   snmp_mappings>>
    /\ srv_unchanged

\* the KeyError lines 111-113 raise on a mapping: the first of the fields
\* key, oid_suffix and type that the mapping does not have
missing_field(meta) ==
    IF "key" \notin DOMAIN meta THEN "key"
    ELSE IF "oid_suffix" \notin DOMAIN meta THEN "oid_suffix"
    ELSE IF "type" \notin DOMAIN meta THEN "type"
    ELSE ""

\* the for loop of lines 110-125 over the mappings: the text of the
\* exception that leaves it; the errors of _to_snmp_value and of writeVars
\* are caught (lines 40 and 119-125)
snmp_refresh(mappings) ==
    IF \E data_id \in DOMAIN mappings : missing_field(mappings[data_id]) # ""
    THEN "KeyError: "
         \o missing_field(mappings[CHOOSE data_id \in DOMAIN mappings :
                                      /\ missing_field(mappings[data_id]) # ""
                                      /\ \A other \in DOMAIN mappings :
                                            missing_field(mappings[other]) # ""
                                                => data_id <= other])
    ELSE ""

\* one pass of the while loop of snmp_server_thread, lines 107-127: the try
\* around the loop catches KeyboardInterrupt only, so any other exception
\* of the pass leaves the function through the finally block
SnmpLoopPass ==
    /\ server_threads.snmp.state = "running"
    /\ ~stop_event
    /\ server_threads' =
          [server_threads EXCEPT !.snmp =
              IF snmp_refresh(snmp_mappings) # ""
              THEN terminate(@, snmp_refresh(snmp_mappings), TRUE)
              ELSE next_pass(@)]
    /\ UNCHANGED <<holding_registers, modbus_tick, stop_event, iec104_server,
                   client_sockets, iec104_round, opcua_nodes, opcua_mappings,
                   snmp_mappings>>
    /\ srv_unchanged

\* a running loop sees the stop signal and its thread ends
ServerExit(server) ==
    /\ stop_event
    /\ server_threads[server].state = "running"
    /\ server_threads' = [server_threads EXCEPT ![server].state = "stopped"]
    /\ UNCHANGED <<holding_registers, modbus_tick, stop_event, iec104_server,
                   client_sockets, iec104_round, opcua_nodes, opcua_mappings,
                   snmp_mappings>>
    /\ srv_unchanged

(***************************************************************************)
(* core/mqtt_forwarder.py: MqttForwarder.  A payload is the number of the  *)
(* pass of _run that took the snapshot; _out_queue is the sequence of the  *)
(* queued payloads, oldest put first.                                      *)
(***************************************************************************)
\* the forwarder after __init__: after_enqueue is the queue as the last
\* call of _enqueue left it, published what the last pass published
NewForwarder ==
    [state |-> "new", connected |-> FALSE, stop |-> FALSE, passes |-> 0,
     out_queue |-> <<>>, enqueued |-> 0, after_enqueue |-> <<>>, published |-> <<>>]

\* Queue.full() of a Queue(maxsize): a maxsize of 0 or less never is full
full(queue, maxsize) == maxsize > 0 /\ Len(queue) >= maxsize

\* Queue.put_nowait: Full leaves the queue as it is
put_nowait(queue, maxsize, item) ==
    IF full(queue, maxsize) THEN queue ELSE Append(queue, item)

\* Queue.get_nowait when it does not matter what was got
get_nowait(queue) == IF queue = <<>> THEN queue ELSE Tail(queue)

\* MqttForwarder._enqueue
_enqueue(queue, maxsize, msg) ==
    IF ~full(queue, maxsize) THEN put_nowait(queue, maxsize, msg)
    ELSE put_nowait(get_nowait(queue), maxsize, msg)

\* the drain loop of lines 74-87: the first `sent` payloads are published;
\* the publish of the next one, if there is one, raises and the payload is
\* put back with put_nowait
drain(queue, maxsize, sent) ==
    IF sent >= Len(queue) THEN [out_queue |-> <<>>, published |-> queue]
    ELSE [out_queue |-> put_nowait(SubSeq(queue, sent + 2, Len(queue)), maxsize,
                                   queue[sent + 1]),
          published |-> SubSeq(queue, 1, sent)]

mqtt_unchanged ==
    UNCHANGED <<data_points, key_to_address, address_to_key, key_to_id, id_to_key,
                change_listeners, history, next_addresses, now, next_uuid, ret, calls,
                written, conflict_allowed, conc_vars, ipc_vars, map_vars, srv_vars,
                ipc_server>>

\* MqttForwarder.start
MqttStart ==
    /\ mqtt.state = "new"
    /\ mqtt' = [mqtt EXCEPT !.state = "running"]
    /\ mqtt_unchanged

\* _on_connect(rc) and _on_disconnect, called by the network loop
MqttCallback(connected) ==
    /\ mqtt.state = "running"
    /\ mqtt' = [mqtt EXCEPT !.connected = connected]
    /\ mqtt_unchanged

\* one pass of the while loop of _run, lines 58-91.  connect_raises: the
\* connect of line 62 raises; connected: what line 73 reads from the
\* event; sent: the publishes that succeed before one raises
MqttPass(connect_raises, connected, sent) ==
    /\ mqtt.state = "running"
    /\ ~mqtt.stop
    /\ IF ~mqtt.connected /\ connect_raises
       THEN mqtt' = [mqtt EXCEPT !.passes = @ + 1, !.enqueued = 0,
                                 !.after_enqueue = <<>>, !.published = <<>>]
       ELSE \E queued \in {_enqueue(mqtt.out_queue, MQTT_MAX_QUEUE, mqtt.passes + 1)} :
               \E d \in {IF connected THEN drain(queued, MQTT_MAX_QUEUE, sent)
                         ELSE [out_queue |-> queued, published |-> <<>>]} :
                  mqtt' = [mqtt EXCEPT !.passes = @ + 1,
                                       !.connected = connected,
                                       !.enqueued = mqtt.passes + 1,
                                       !.after_enqueue = queued,
                                       !.out_queue = d.out_queue,
                                       !.published = d.published]
    /\ mqtt_unchanged

\* MqttForwarder.stop: the event is set and disconnect clears _connected
MqttStop ==
    /\ mqtt.state = "running"
    /\ ~mqtt.stop
    /\ mqtt' = [mqtt EXCEPT !.stop = TRUE, !.connected = FALSE]
    /\ mqtt_unchanged

\* _run leaves its loop, line 93
MqttExit ==
    /\ mqtt.state = "running"
    /\ mqtt.stop
    /\ mqtt' = [mqtt EXCEPT !.state = "stopped"]
    /\ mqtt_unchanged

(***************************************************************************)
(* core/ipc.py: IpcServer.start, its accept thread run, and stop.          *)
(***************************************************************************)
\* the server after __init__: _server and _thread are None (0), no file is
\* at socket_path (0), no socket and no accept thread was made
NewIpcServer ==
    [_server |-> 0, _thread |-> 0, _stop |-> FALSE, path |-> 0, sockets |-> <<>>,
     accept_threads |-> <<>>, last_call |-> "none"]

\* Thread.is_alive() of the accept thread numbered t
is_alive(server, t) == t # 0 /\ server.accept_threads[t].pc # "done"

\* an accept thread about to test the stop event for the first time
NewAcceptThread(srv) == [pc |-> "test", srv |-> srv, accepted |-> 0]

\* IpcServer.stop: the event is set, the listener closed, the file removed
ipc_stop(server) ==
    [server EXCEPT !._stop = TRUE,
                   !.sockets = [i \in DOMAIN @ |-> IF i = server._server THEN "closed"
                                                   ELSE @[i]],
                   !._server = 0,
                   !.path = 0,
                   !.last_call = "stop"]

\* IpcServer.start: nothing is done while the accept thread is alive;
\* else the file is removed, a new socket is bound to the path and listens,
\* the event is cleared and a new accept thread is started
ipc_start(server) ==
    IF is_alive(server, server._thread) THEN [server EXCEPT !.last_call = "start"]
    ELSE [server EXCEPT !.sockets = Append(@, "listening"),
                        !.path = Len(server.sockets) + 1,
                        !._server = Len(server.sockets) + 1,
                        !._stop = FALSE,
                        !.accept_threads = Append(@, NewAcceptThread(Len(server.sockets) + 1)),
                        !._thread = Len(server.accept_threads) + 1,
                        !.last_call = "start"]

\* run whose loop does not test the stop event
run_forever(server, t, connection) ==
    LET thread == server.accept_threads[t]
        closed == server.sockets[thread.srv] = "closed"
    IN  CASE thread.pc = "test" -> [thread EXCEPT !.pc = "settimeout"]
          [] thread.pc = "settimeout" ->
                [thread EXCEPT !.pc = IF closed THEN "test" ELSE "accept"]
          [] thread.pc = "accept" ->
                IF ~closed /\ connection
                THEN [thread EXCEPT !.pc = "test", !.accepted = @ + 1]
                ELSE [thread EXCEPT !.pc = "test"]
          [] OTHER -> thread

\* one step of run, lines 50-61, by the accept thread numbered t: the test
\* of the stop event; settimeout, which raises OSError on a closed socket;
\* accept, which raises on a closed socket, times out, or returns a
\* connection that is handed to a handler thread
run(server, t, connection) ==
    LET thread == server.accept_threads[t]
        closed == server.sockets[thread.srv] = "closed"
    IN  CASE thread.pc = "test" ->
                [thread EXCEPT !.pc = IF server._stop THEN "done" ELSE "settimeout"]
          [] thread.pc = "settimeout" ->
                [thread EXCEPT !.pc = IF closed THEN "test" ELSE "accept"]
          [] thread.pc = "accept" ->
                IF ~closed /\ connection
                THEN [thread EXCEPT !.pc = "test", !.accepted = @ + 1]
                ELSE [thread EXCEPT !.pc = "test"]
          [] OTHER -> thread

ipc_server_unchanged ==
    UNCHANGED <<data_points, key_to_address, address_to_key, key_to_id, id_to_key,
                change_listeners, history, next_addresses, now, next_uuid, ret, calls,
                written, conflict_allowed, conc_vars, ipc_vars, map_vars, srv_vars, mqtt>>

\* IpcServer.start()
IpcStart ==
    /\ ipc_server' = ipc_start(ipc_server)
    /\ ipc_server_unchanged

\* IpcServer.stop()
IpcStop ==
    /\ ipc_server' = ipc_stop(ipc_server)
    /\ ipc_server_unchanged

\* the accept thread numbered t takes a step; a client can connect only
\* through the file at socket_path
IpcRun(t, connection) ==
    /\ t \in DOMAIN ipc_server.accept_threads
    /\ ipc_server.accept_threads[t].pc # "done"
    /\ connection => ipc_server.path = ipc_server.accept_threads[t].srv
    /\ ipc_server' = [ipc_server EXCEPT !.accept_threads[t] = run(ipc_server, t, connection)]
    /\ ipc_server_unchanged

\* the sequences of at most n elements of set
RECURSIVE SeqsUpTo(_, _)
SeqsUpTo(set, n) ==
    IF n = 0 THEN {<<>>}
    ELSE LET shorter == SeqsUpTo(set, n - 1)
         IN  shorter \cup {Append(q, x) : q \in shorter, x \in set}

\* DataStore.__init__
Init ==
    /\ data_points = EmptyDict
    /\ key_to_address = EmptyDict
    /\ address_to_key = EmptyDict
    /\ key_to_id = EmptyDict
    /\ id_to_key = EmptyDict
    /\ change_listeners = <<>>
    /\ history = EmptyDict
    /\ next_addresses = InitNextAddresses
    /\ now = 0
    /\ next_uuid = 0
    /\ ret = [op |-> "init", arg |-> 0, val |-> 0, err |-> "none"]
    /\ calls = <<>>
    /\ written = EmptyDict
    /\ conflict_allowed = FALSE
    /\ lock = NoThread
    /\ threads = [h \in Handlers |-> IdleThread]
    /\ observed = [op |-> "none", got |-> EmptyDict, expected |-> EmptyDict]
    /\ committed = EmptyDict
    /\ request = MalformedLine
    /\ response = NoResponse
    /\ modbus_mappings = EmptyDict
    /\ iec104_mappings = EmptyDict
    /\ map_call = MapCall(0, "", "none", <<>>, 0, "", <<>>)
    /\ holding_registers = EmptyDict
    /\ modbus_tick = NoTick
    /\ stop_event = FALSE
    /\ iec104_server = NotStarted
    /\ client_sockets = [client \in Clients |-> NoSocket]
    /\ iec104_round = NoRound
    /\ server_threads = [modbus |-> Thread("running"), opcua |-> Thread("running"),
                         snmp |-> Thread("start")]
    /\ opcua_nodes = EmptyDict
    /\ opcua_mappings = EmptyDict
    /\ snmp_mappings = EmptyDict
    /\ mqtt = NewForwarder
    /\ ipc_server = NewIpcServer

(***************************************************************************)
(* Inputs of the calls.                                                    *)
(***************************************************************************)
Keys == {"temp", "motorOn"}

DataTypes == {"float", "int", "bool", "string", "raw"}

Units == {"C"}

\* register's default argument: the parameter's default 0, and a float
Defaults == {PyIntV(0), PyFloatV(5)}

\* values handed to write: "17", "abc", 3, 2.5, None
RawValues ==
    {PyStrV(<<"1", "7">>), PyStrV(<<"a", "b", "c">>), PyIntV(3), PyFloatV(5), PyNone}

\* explicit addresses handed to register, read and write: the first of the
\* float range and one outside every range
Addresses == {40001, 5}

Callbacks == {"cb1"}

\* the key_or_address arguments of read and write
WriteTargets == {KeyArg(k) : k \in Keys} \cup {AddrArg(a) : a \in Addresses}

(***************************************************************************)
(* SpecWrite: the tag "temp" registered with auto-allocated addresses, then *)
(* written, read and listened to; "motorOn" is never registered.           *)
(***************************************************************************)
WriteRegister ==
    /\ now < MaxWriteClock
    /\ \E dt \in DataTypes, d \in Defaults :
          Register("temp", NoneAddr, d, dt, "C", FALSE, TRUE)

WriteWrite ==
    /\ now < MaxWriteClock
    /\ \E koa \in WriteTargets, v \in RawValues : Write(koa, v)

WriteRead == \E koa \in WriteTargets : Read(koa)

WriteListen ==
    /\ Len(change_listeners) < MaxListeners
    /\ \E cb \in Callbacks : AddChangeListener(cb)

NextWrite == WriteRegister \/ WriteWrite \/ WriteRead \/ WriteListen

SpecWrite == Init /\ [][NextWrite]_vars

(***************************************************************************)
(* SpecReg: register with every combination of its arguments.              *)
(***************************************************************************)
RegTypes == {"float", "int"}

\* address omitted (with and without auto_allocate), or an explicit address
\* (with and without allow_address_conflict)
RegAddressArgs ==
    {[address |-> NoneAddr, allow |-> FALSE, auto |-> auto] : auto \in BOOLEAN}
    \cup {[address |-> a, allow |-> allow, auto |-> TRUE] :
             a \in Addresses, allow \in BOOLEAN}

RegRegister ==
    /\ now < MaxRegClock
    /\ \E k \in Keys, a \in RegAddressArgs, dt \in RegTypes :
          Register(k, a.address, PyIntV(0), dt, "C", a.allow, a.auto)

RegWrite ==
    /\ now < MaxRegClock
    /\ \E k \in Keys : Write(KeyArg(k), PyIntV(3))

NextReg == RegRegister \/ RegWrite

SpecReg == Init /\ [][NextReg]_vars

(***************************************************************************)
(* SpecId: ensure_id interleaved with register and write.                  *)
(***************************************************************************)
IdEnsure ==
    /\ next_uuid < MaxIds
    /\ \E k \in Keys : EnsureId(k)

IdRegister ==
    /\ now < MaxIdClock
    /\ \E k \in Keys, dt \in RegTypes : Register(k, NoneAddr, PyIntV(0), dt, "C", FALSE, TRUE)

IdWrite ==
    /\ now < MaxIdClock
    /\ \E k \in Keys, v \in RawValues : Write(KeyArg(k), v)

NextId == IdEnsure \/ IdRegister \/ IdWrite

SpecId == Init /\ [][NextId]_vars

(***************************************************************************)
(* SpecHist: tags written more than max_history_size times; the call made  *)
(* at time n writes the value n.                                           *)
(***************************************************************************)
HistLimits == {default_history_limit, 0, max_history_size, max_history_size + 1}

HistRegister ==
    /\ now < MaxHistClock
    /\ \E k \in Keys :
          /\ k \notin DOMAIN data_points
          /\ Register(k, NoneAddr, PyIntV(0), "int", "C", FALSE, TRUE)

HistWrite ==
    /\ now < MaxHistClock
    /\ \E k \in Keys : Write(KeyArg(k), PyIntV(now + 1))

HistGet == \E k \in Keys, limit \in HistLimits : GetHistory(k, limit)

NextHist == HistRegister \/ HistWrite \/ HistGet

SpecHist == Init /\ [][NextHist]_vars

(***************************************************************************)
(* SpecListen: the float tag "temp" written while listeners, one of them   *)
(* raising, are added; a callback may be added more than once.             *)
(***************************************************************************)
ListenCallbacks == {"cb1"} \cup RaisingCallbacks

\* values handed to write: 3, 2.5, "abc" (not a float: the default is stored)
ListenValues == {PyIntV(3), PyFloatV(5), PyStrV(<<"a", "b", "c">>)}

ListenRegister ==
    /\ now < MaxListenClock
    /\ "temp" \notin DOMAIN data_points
    /\ Register("temp", NoneAddr, PyIntV(0), "float", "C", FALSE, TRUE)

ListenWrite ==
    /\ now < MaxListenClock
    /\ \E v \in ListenValues : Write(KeyArg("temp"), v)

ListenAdd ==
    /\ Len(change_listeners) < MaxListeners
    /\ \E cb \in ListenCallbacks : AddChangeListener(cb)

NextListen == ListenRegister \/ ListenWrite \/ ListenAdd

SpecListen == Init /\ [][NextListen]_vars

(***************************************************************************)
(* SpecConc: handler threads of the IPC server writing while reader        *)
(* threads (the publishers' ticks) call detailed_snapshot and get_history. *)
(* DataStore.write is taken one statement group at a time; the lock is     *)
(* held from the first to the last of them.                                *)
(***************************************************************************)
\* `with self._lock` entered by a thread that ignores the lock
lock_ignored(owner, thread) == TRUE

\* `with self._lock` (an RLock): the thread may enter when no other thread
\* holds the lock
lock_free(owner, thread) == owner = NoThread \/ owner = thread

\* value and quality of a data point, as detailed_snapshot reports them
Sample(dp) == [value |-> dp.value, quality |-> dp.quality]

\* the writes one request asks for: the key (write) or the id
\* (bulk_write_by_id) and the value
ByKey(k, v) == [by_id |-> FALSE, key |-> k, id |-> 0, value |-> v]
ById(id, v) == [by_id |-> TRUE, key |-> NoneKey, id |-> id, value |-> v]

\* requests of the handler threads: write temp 3, write temp "abc" (not a
\* float), and a bulk_write_by_id of the first two ids
ConcRequests ==
    {<<ByKey("temp", PyIntV(3))>>,
     <<ByKey("temp", PyStrV(<<"a", "b", "c">>))>>,
     <<ById(1, PyFloatV(5)), ById(2, PyIntV(7))>>}

\* the write calls the requests in flight have still to make
PendingWrites ==
    LET left(h) == IF threads[h].pc = "idle" THEN 0
                   ELSE Len(threads[h].req) - threads[h].i + 1
    IN  left("h1") + left("h2")

\* the handler thread h has finished item i of its request
NextItem(h) ==
    IF threads[h].i < Len(threads[h].req)
    THEN [threads EXCEPT ![h] = [@ EXCEPT !.pc = "ready", !.i = @ + 1]]
    ELSE [threads EXCEPT ![h] = IdleThread]

ConcRegister ==
    /\ lock_free(lock, "main")
    /\ now + PendingWrites < MaxConcClock
    /\ \E k \in Keys :
          /\ k \notin DOMAIN data_points
          /\ k = "motorOn" => "temp" \in DOMAIN data_points
          /\ Register(k, NoneAddr, PyIntV(0), "float", "C", FALSE, TRUE)

\* the ids are drawn in the order of registration: temp has id 1, motorOn id 2
ConcEnsureId ==
    /\ lock_free(lock, "main")
    /\ \E k \in DOMAIN data_points :
          /\ k \notin DOMAIN key_to_id
          /\ k = "motorOn" => "temp" \in DOMAIN key_to_id
          /\ EnsureId(k)

\* the raising listener is added first, so that the others come after it
ConcListen ==
    /\ lock_free(lock, "main")
    /\ Len(change_listeners) < MaxListeners
    /\ data_points = EmptyDict
    /\ AddChangeListener(IF change_listeners = <<>> THEN "cb_raises" ELSE "cb1")

\* _handle_client reads a request
ConcBegin(h) ==
    /\ threads[h].pc = "idle"
    /\ \E req \in ConcRequests :
          /\ now + PendingWrites + Len(req) <= MaxConcClock
          /\ threads' = [threads EXCEPT ![h] = [IdleThread EXCEPT !.pc = "ready",
                                                                 !.req = req, !.i = 1]]
    /\ UNCHANGED <<data_points, key_to_address, address_to_key, key_to_id, id_to_key,
                   change_listeners, history, next_addresses, now, next_uuid, ret,
                   calls, written, conflict_allowed, lock, observed, committed, ipc_vars, map_vars,
                   srv_vars, svc_vars>>

\* DataStore.write up to validated_value = self._coerce_value(dp, value);
\* an id or key that names no tag ends the item without a write
ConcCoerce(h) ==
    LET th == threads[h]
        item == th.req[th.i]
        key == IF item.by_id THEN Get(id_to_key, item.id, NoneKey) ELSE item.key
        t == now + 1
    IN  /\ th.pc = "ready"
        /\ lock_free(lock, h)
        /\ now' = t
        /\ IF key \notin DOMAIN data_points
           THEN /\ threads' = NextItem(h)
                /\ UNCHANGED <<data_points, lock>>
           ELSE LET c == _coerce_value(data_points[key], item.value)
                IN  /\ lock' = h
                    /\ data_points' = [data_points EXCEPT ![key] = c.dp]
                    /\ threads' = [threads EXCEPT ![h] =
                                      [@ EXCEPT !.pc = "coerced", !.key = key,
                                                !.old = data_points[key].value,
                                                !.validated = c.val,
                                                !.raised = c.raised, !.t = t]]
        /\ UNCHANGED <<key_to_address, address_to_key, key_to_id, id_to_key,
                       change_listeners, history, next_addresses, next_uuid, ret,
                       calls, written, conflict_allowed, observed, committed, ipc_vars, map_vars,
                   srv_vars, svc_vars>>

\* DataStore.write, dp.set_value(validated_value)
ConcSetValue(h) ==
    LET th == threads[h]
    IN  /\ th.pc = "coerced"
        /\ data_points' = [data_points EXCEPT ![th.key] = set_value(@, th.validated, th.t)]
        /\ threads' = [threads EXCEPT ![h] = [@ EXCEPT !.pc = "set"]]
        /\ UNCHANGED <<key_to_address, address_to_key, key_to_id, id_to_key,
                       change_listeners, history, next_addresses, now, next_uuid, ret,
                       calls, written, conflict_allowed, lock, observed, committed, ipc_vars,
                       map_vars, srv_vars, svc_vars>>

\* DataStore.write, self._add_to_history(key, validated_value)
ConcAddHistory(h) ==
    LET th == threads[h]
    IN  /\ th.pc = "set"
        /\ history' = Put(history, th.key,
                          _add_to_history(Get(history, th.key, <<>>), th.validated, th.t))
        /\ threads' = [threads EXCEPT ![h] = [@ EXCEPT !.pc = "logged"]]
        /\ UNCHANGED <<data_points, key_to_address, address_to_key, key_to_id, id_to_key,
                       change_listeners, next_addresses, now, next_uuid, ret,
                       calls, written, conflict_allowed, lock, observed, committed, ipc_vars,
                       map_vars, srv_vars, svc_vars>>

\* DataStore.write, the notification of the listeners and the end of the
\* with block
ConcNotify(h) ==
    LET th == threads[h]
    IN  /\ th.pc = "logged"
        /\ calls' = IF value_changed(th.old, th.validated)
                    THEN _notify_change(change_listeners, th.key, th.old, th.validated, th.t)
                    ELSE <<>>
        /\ lock' = NoThread
        /\ ret' = [op |-> "write",
                   arg |-> [key_or_address |-> KeyArg(th.key),
                            value |-> th.req[th.i].value],
                   val |-> [key |-> th.key, raised |-> th.raised], err |-> "none"]
        /\ written' = Put(written, th.key,
                          Append(Get(written, th.key, <<>>),
                                 [timestamp |-> th.t, value |-> th.validated]))
        /\ committed' = Put(committed, th.key, Sample(data_points[th.key]))
        /\ threads' = NextItem(h)
        /\ UNCHANGED <<data_points, key_to_address, address_to_key, key_to_id, id_to_key,
                       change_listeners, history, next_addresses, now, next_uuid,
                       conflict_allowed, observed, ipc_vars, map_vars,
                   srv_vars, svc_vars>>

\* a reader thread calls DataStore.detailed_snapshot; a tag no write has
\* finished on has its default and the quality __init__ gave it
ConcSnapshot ==
    /\ lock_free(lock, "reader")
    /\ observed' =
          [op |-> "detailed_snapshot",
           got |-> [k \in DOMAIN data_points |-> Sample(data_points[k])],
           expected |-> [k \in DOMAIN data_points |->
                            Get(committed, k, [value |-> data_points[k].default,
                                               quality |-> "GOOD"])]]
    /\ UNCHANGED <<data_points, key_to_address, address_to_key, key_to_id, id_to_key,
                   change_listeners, history, next_addresses, now, next_uuid, ret,
                   calls, written, conflict_allowed, lock, threads, committed, ipc_vars, map_vars,
                   srv_vars, svc_vars>>

\* a reader thread calls DataStore.get_history with the default limit
ConcGetHistory ==
    /\ lock_free(lock, "reader")
    /\ observed' =
          [op |-> "get_history",
           got |-> [k \in DOMAIN data_points |->
                       get_history(history, k, default_history_limit)],
           expected |-> [k \in DOMAIN data_points |->
                            get_history(written, k, default_history_limit)]]
    /\ UNCHANGED <<data_points, key_to_address, address_to_key, key_to_id, id_to_key,
                   change_listeners, history, next_addresses, now, next_uuid, ret,
                   calls, written, conflict_allowed, lock, threads, committed, ipc_vars, map_vars,
                   srv_vars, svc_vars>>

ConcHandler ==
    \E h \in Handlers :
        ConcBegin(h) \/ ConcCoerce(h) \/ ConcSetValue(h) \/ ConcAddHistory(h) \/ ConcNotify(h)

NextConc ==
    ConcRegister \/ ConcEnsureId \/ ConcListen \/ ConcHandler \/ ConcSnapshot
    \/ ConcGetHistory

SpecConc == Init /\ [][NextConc]_vars

(***************************************************************************)
(* SpecIpc: the tags temp (float) and motorOn (int) registered and given   *)
(* ids, then requests of every shape sent to the IPC endpoint.             *)
(***************************************************************************)
\* elements of "updates": a known id, a known id with a value that is no
\* int, an unknown id, a missing id, and an element that is no object
IpcUpdates ==
    {JObj([id |-> JStr("id1"), value |-> JNum(PyIntV(3))]),
     JObj([id |-> JStr("id2"), value |-> JStr("abc")]),
     JObj([id |-> JStr("id9"), value |-> JNum(PyIntV(3))]),
     JObj([value |-> JNum(PyIntV(3))]),
     JNum(PyIntV(5))}

IpcLines ==
    {MalformedLine,
     Line(JNum(PyIntV(5))),
     Line(JObj(EmptyDict)),
     Line(JObj([action |-> JStr("delete")])),
     Line(JObj([action |-> JStr("write"), key |-> JStr("temp"),
                value |-> JNum(PyIntV(3))])),
     Line(JObj([action |-> JStr("write"), key |-> JStr("temp")])),
     Line(JObj([action |-> JStr("write"), value |-> JNum(PyIntV(3))])),
     Line(JObj([action |-> JStr("write_by_id"), id |-> JStr("id1"),
                value |-> JNum(PyFloatV(5))])),
     Line(JObj([action |-> JStr("write_by_id"), id |-> JStr("id9"),
                value |-> JNum(PyIntV(3))])),
     Line(JObj([action |-> JStr("write_by_id"), value |-> JNum(PyIntV(3))])),
     Line(JObj([action |-> JStr("write_by_id"), id |-> JStr("id2")])),
     Line(JObj([action |-> JStr("bulk_write_by_id")])),
     Line(JObj([action |-> JStr("bulk_write_by_id"), updates |-> JStr("abc")]))}
    \cup {Line(JObj([action |-> JStr("bulk_write_by_id"), updates |-> JList(u)])) :
             u \in SeqsUpTo(IpcUpdates, MaxUpdates)}

IpcRegister ==
    /\ now < MaxIpcClock
    /\ \/ /\ "temp" \notin DOMAIN data_points
          /\ Register("temp", NoneAddr, PyFloatV(5), "float", "C", FALSE, TRUE)
       \/ /\ "temp" \in DOMAIN data_points
          /\ "motorOn" \notin DOMAIN data_points
          /\ Register("motorOn", NoneAddr, PyIntV(0), "int", "", FALSE, TRUE)

\* temp is given the id "id1", motorOn the id "id2"
IpcEnsureId ==
    \E k \in DOMAIN data_points :
        /\ k \notin DOMAIN key_to_id
        /\ k = "motorOn" => "temp" \in DOMAIN key_to_id
        /\ EnsureId(k)

IpcRequest ==
    \E line \in IpcLines :
        /\ HandleClient(line)
        /\ now' <= MaxIpcClock

NextIpc == IpcRegister \/ IpcEnsureId \/ IpcRequest

SpecIpc == Init /\ [][NextIpc]_vars

(***************************************************************************)
(* SpecMap: the tags tempA (float), motorOn (bool) and a third one, either *)
(* counter (int) or power (float, kW), registered and given the ids 1, 2   *)
(* and 3; then set, remove and bulk auto-generation on the IEC-104 and the *)
(* Modbus registry.                                                        *)
(***************************************************************************)
MapIds == {1, 2, 3}

\* the lists of distinct ids
IdLists ==
    {q \in SeqsUpTo(MapIds, 3) :
        /\ q # <<>>
        /\ \A i \in 1..Len(q), j \in 1..Len(q) : i # j => q[i] # q[j]}

MapRegister ==
    \/ /\ "tempA" \notin DOMAIN data_points
       /\ Register("tempA", NoneAddr, PyIntV(0), "float", "C", FALSE, TRUE)
    \/ /\ "tempA" \in DOMAIN data_points
       /\ "motorOn" \notin DOMAIN data_points
       /\ Register("motorOn", NoneAddr, PyIntV(0), "bool", "", FALSE, TRUE)
    \/ /\ "motorOn" \in DOMAIN data_points
       /\ DOMAIN data_points \cap {"counter", "power"} = {}
       /\ \/ Register("counter", NoneAddr, PyIntV(0), "int", "", FALSE, TRUE)
          \/ Register("power", NoneAddr, PyIntV(0), "float", "kW", FALSE, TRUE)

\* ids are given once the three tags are registered: tempA 1, motorOn 2,
\* the third tag 3
MapEnsureId ==
    /\ Cardinality(DOMAIN data_points) = 3
    /\ \E k \in DOMAIN data_points :
          /\ k \notin DOMAIN key_to_id
          /\ k # "tempA" => "tempA" \in DOMAIN key_to_id
          /\ k \notin {"tempA", "motorOn"} => "motorOn" \in DOMAIN key_to_id
          /\ EnsureId(k)

MapSet ==
    /\ map_call.n < MaxMapCalls
    /\ \E data_id \in {1, 2} :
          /\ data_id \in DOMAIN id_to_key
          /\ \/ \E ioa \in {1000, 3000} :
                   IEC104SetMapping(data_id, id_to_key[data_id], ioa, "M_ME_NC_1")
             \/ \E address \in {40001, 40002} :
                   ModbusSetMapping(data_id, id_to_key[data_id], address, "float32")

MapRemove ==
    /\ map_call.n < MaxMapCalls
    /\ \E data_id \in {1, 2} :
          IEC104RemoveMapping(data_id) \/ ModbusRemoveMapping(data_id)

\* bulk generation with the default start and data_type padding for every
\* list of ids; with another start and with sequential padding for some
MapBulkIEC104 ==
    /\ map_call.n < MaxMapCalls
    /\ \/ \E data_ids \in IdLists : AutoGenerateIEC104(data_ids, 1000, "data_type")
       \/ \E data_ids \in {<<1>>, <<2, 1>>} : AutoGenerateIEC104(data_ids, 1500, "data_type")
       \/ AutoGenerateIEC104(<<1, 2>>, 1000, "sequential")

MapBulkModbus ==
    /\ map_call.n < MaxMapCalls
    /\ \/ \E data_ids \in IdLists : AutoGenerateModbus(data_ids, 40001, "data_type")
       \/ \E data_ids \in {<<1>>, <<2, 1>>} : AutoGenerateModbus(data_ids, 40500, "data_type")
       \/ \E data_ids \in {<<1, 2>>, <<1, 3>>} :
             AutoGenerateModbus(data_ids, 40001, "sequential")

NextMap ==
    MapRegister \/ MapEnsureId \/ MapSet \/ MapRemove \/ MapBulkIEC104 \/ MapBulkModbus

SpecMap == Init /\ [][NextMap]_vars

(***************************************************************************)
(* SpecModbus: the tags temp (float, address 40001), counter (int) and     *)
(* label (string) are registered; Modbus mappings are set for them and for *)
(* the key ghost, which names no tag, on register spans that do not        *)
(* overlap; values are written through the IPC write action; the publisher *)
(* of the Modbus server ticks.                                             *)
(***************************************************************************)
ModbusRegister ==
    \/ /\ "temp" \notin DOMAIN data_points
       /\ Register("temp", 40001, PyFloatV(0), "float", "C", FALSE, TRUE)
    \/ /\ "temp" \in DOMAIN data_points
       /\ "counter" \notin DOMAIN data_points
       /\ Register("counter", NoneAddr, PyIntV(0), "int", "", FALSE, TRUE)
    \/ /\ "counter" \in DOMAIN data_points
       /\ "label" \notin DOMAIN data_points
       /\ Register("label", NoneAddr, PyStrV(<<"1", "7">>), "string", "", FALSE, TRUE)

\* the mappings are inserted in the order of their ids, so that the order
\* of the ids is the order of MODBUS_MAPPING.all()
ModbusMap ==
    /\ map_call.n < MaxModbusMaps
    /\ \/ /\ DOMAIN modbus_mappings = {}
          /\ \E endianess \in {"big", "little"} :
                ModbusSetMappingEndian(1, "temp", 40001, "float32", endianess)
       \/ /\ DOMAIN modbus_mappings \subseteq {1, 2}
          /\ \E data_type \in {"int32", "uint32"}, endianess \in {"big", "little"} :
                ModbusSetMappingEndian(2, "counter", 40011, data_type, endianess)
       \/ ModbusSetMappingEndian(3, "label", 40021, "int16", "big")
       \/ ModbusSetMappingEndian(3, "ghost", 40021, "float32", "big")

ModbusLines ==
    {Line(JObj([action |-> JStr("write"), key |-> JStr("temp"), value |-> JNum(v)])) :
        v \in {PyFloatV(2), PyFloatV(47)}}
    \cup {Line(JObj([action |-> JStr("write"), key |-> JStr("counter"),
                     value |-> JNum(v)])) : v \in {PyIntV(65538), PyIntV(-1)}}
    \cup {Line(JObj([action |-> JStr("write"), key |-> JStr("label"),
                     value |-> JStr("abc")]))}

ModbusIpcWrite ==
    /\ Cardinality(DOMAIN data_points) = 3
    /\ \E line \in ModbusLines :
          /\ HandleClient(line)
          /\ now' <= MaxModbusClock

ModbusPublish ==
    /\ modbus_tick.n < MaxModbusTicks
    /\ ModbusTick

NextModbus == ModbusRegister \/ ModbusMap \/ ModbusIpcWrite \/ ModbusPublish

SpecModbus == Init /\ [][NextModbus]_vars

(***************************************************************************)
(* SpecIec104: the tags temp (float, 1.0) and label (string, "17") are     *)
(* registered and written and IEC-104 mappings are set for them in the     *)
(* order of their ids; then the fallback server starts, accepts clients,   *)
(* broadcasts and is stopped.                                              *)
(***************************************************************************)
Iec104Setup == iec104_server.pc = "start"

Iec104Register ==
    /\ Iec104Setup
    /\ \/ /\ "temp" \notin DOMAIN data_points
          /\ Register("temp", NoneAddr, PyFloatV(2), "float", "C", FALSE, TRUE)
       \/ /\ "temp" \in DOMAIN data_points
          /\ "label" \notin DOMAIN data_points
          /\ Register("label", NoneAddr, PyStrV(<<"1", "7">>), "string", "", FALSE, TRUE)

Iec104Write ==
    /\ Iec104Setup
    /\ now < MaxIec104Clock
    /\ \/ /\ "temp" \in DOMAIN data_points
          /\ Write(KeyArg("temp"), PyFloatV(47))
       \/ /\ "label" \in DOMAIN data_points
          /\ Write(KeyArg("label"), PyStrV(<<"a", "b", "c">>))

Iec104Map ==
    /\ Iec104Setup
    /\ map_call.n < MaxMapCalls
    /\ \/ /\ DOMAIN iec104_mappings = {}
          /\ IEC104SetMapping(1, "temp", 5000, "M_ME_NC_1")
       \/ /\ DOMAIN iec104_mappings = {1}
          /\ IEC104SetMapping(2, "label", 5001, "M_ME_NC_1")

Iec104Run == \E outcome \in {"ok", "socket", "bind", "listen"} : Iec104Start(outcome)

\* the clients connect in the order of their numbers
Iec104Loop ==
    /\ iec104_round.n < MaxPasses
    /\ \E accepted \in 0..MaxClients, startdt_ok \in BOOLEAN, due \in BOOLEAN,
          fails \in SUBSET Clients :
          /\ accepted # 0 => \A c \in 1..(accepted - 1) : client_sockets[c].state # "none"
          /\ accepted = 0 => startdt_ok
          /\ iec104_server.last_send_time = 0 => due
          /\ \A c \in fails :
                /\ due
                /\ iec104_mappings # EmptyDict
                /\ \/ c = accepted
                   \/ \E i \in 1..Len(iec104_server.clients) : iec104_server.clients[i] = c
          /\ Iec104Pass(accepted, startdt_ok, due, fails)

Iec104Stop == ~stop_event /\ iec104_server.pc = "loop" /\ SetStop

NextIec104 ==
    \/ Iec104Register
    \/ Iec104Write
    \/ Iec104Map
    \/ Iec104Run
    \/ Iec104Loop
    \/ Iec104Stop
    \/ Iec104Exit

SpecIec104 == Init /\ [][NextIec104]_vars

(***************************************************************************)
(* SpecServers: the tags temp (float, 1.0) and label (string, "17") are    *)
(* registered and mapped for Modbus, IEC-104 and SNMP; then the four       *)
(* server threads run their loops while the tags are written, until the    *)
(* stop signal is set.                                                     *)
(***************************************************************************)
\* the four loops in the order they take their passes in
ServerOrder == <<"modbus", "iec104", "opcua", "snmp">>

\* the loop of the server is running
looping(server) ==
    IF server = "iec104" THEN iec104_server.pc = "loop"
    ELSE server_threads[server].state = "running"

\* the passes the loop of the server has made
passes_of(server) ==
    IF server = "iec104" THEN iec104_round.n ELSE server_threads[server].passes

\* the loops sleep the same second between two passes: the running loops
\* take their passes in turn, in the order of ServerOrder
in_turn(k) ==
    /\ passes_of(ServerOrder[k]) < MaxServerPasses
    /\ \A j \in 1..Len(ServerOrder) :
          looping(ServerOrder[j]) =>
              IF j < k THEN passes_of(ServerOrder[j]) > passes_of(ServerOrder[k])
              ELSE passes_of(ServerOrder[j]) >= passes_of(ServerOrder[k])

ServersSetup ==
    /\ ~stop_event
    /\ iec104_server.pc = "start"
    /\ \A server \in DOMAIN server_threads :
          /\ server_threads[server].passes = 0
          /\ server_threads[server].state # "terminated"
    /\ server_threads.snmp.state = "start"

ServersRegister ==
    /\ ServersSetup
    /\ \/ /\ "temp" \notin DOMAIN data_points
          /\ Register("temp", NoneAddr, PyFloatV(2), "float", "C", FALSE, TRUE)
       \/ /\ "temp" \in DOMAIN data_points
          /\ "label" \notin DOMAIN data_points
          /\ Register("label", NoneAddr, PyStrV(<<"1", "7">>), "string", "", FALSE, TRUE)

ServersMap ==
    /\ ServersSetup
    /\ Cardinality(DOMAIN data_points) = 2
    /\ \/ /\ DOMAIN modbus_mappings = {}
          /\ ModbusSetMappingEndian(1, "temp", 40001, "float32", "big")
       \/ /\ DOMAIN modbus_mappings = {1}
          /\ ModbusSetMappingEndian(2, "label", 40011, "int16", "big")
       \/ /\ DOMAIN modbus_mappings = {1, 2}
          /\ DOMAIN iec104_mappings = {}
          /\ IEC104SetMapping(1, "temp", 5000, "M_ME_NC_1")
       \/ /\ DOMAIN iec104_mappings = {1}
          /\ IEC104SetMapping(2, "label", 5001, "M_ME_NC_1")
       \/ /\ DOMAIN iec104_mappings = {1, 2}
          /\ DOMAIN snmp_mappings = {}
          /\ SNMPSetMapping(1, "temp", "1.3.6.1.4.1.9999.1", "Gauge32")

\* the lines the adapter sends: temp <- 23.5 and label <- "abc"
ServersLines ==
    {Line(JObj([action |-> JStr("write"), key |-> JStr("temp"),
                value |-> JNum(PyFloatV(47))])),
     Line(JObj([action |-> JStr("write"), key |-> JStr("label"), value |-> JStr("abc")]))}

\* the adapter writes between two rounds of passes
ServersWrite ==
    /\ now < MaxServersClock
    /\ Cardinality(DOMAIN data_points) = 2
    /\ \A j, k \in 1..Len(ServerOrder) :
          looping(ServerOrder[j]) /\ looping(ServerOrder[k])
              => passes_of(ServerOrder[j]) = passes_of(ServerOrder[k])
    /\ \E line \in ServersLines : HandleClient(line)

ServersModbus ==
    /\ in_turn(1)
    /\ ModbusLoopPass

\* one client at most connects, and no send fails
ServersIec104 ==
    \/ Iec104Start("ok")
    \/ /\ in_turn(2)
       /\ \E accepted \in {0, 1} :
             /\ accepted = 1 => client_sockets[1].state = "none"
             /\ Iec104Pass(accepted, TRUE, TRUE, {})

ServersOpcua ==
    /\ in_turn(3)
    /\ \E faults \in {{}, {"temp"}} : OpcuaLoopPass(faults)

ServersSnmp ==
    \/ \E has_enterprise_oid \in BOOLEAN : SnmpStart(has_enterprise_oid)
    \/ /\ in_turn(4)
       /\ SnmpLoopPass

ServersStop == ~stop_event /\ ~ServersSetup /\ SetStop

\* the loops see the stop signal in the order of ServerOrder
ServersExit ==
    \E k \in 1..Len(ServerOrder) :
       /\ \A j \in 1..(k - 1) : ~looping(ServerOrder[j])
       /\ \/ /\ ServerOrder[k] # "iec104"
             /\ ServerExit(ServerOrder[k])
          \/ /\ ServerOrder[k] = "iec104"
             /\ Iec104Exit

NextServers ==
    \/ ServersRegister
    \/ ServersMap
    \/ ServersWrite
    \/ ServersModbus
    \/ ServersIec104
    \/ ServersOpcua
    \/ ServersSnmp
    \/ ServersStop
    \/ ServersExit

SpecServers == Init /\ [][NextServers]_vars

(***************************************************************************)
(* SpecOpcua: the tags temp (float, 1.0), counter (int, 0) and label       *)
(* (string, "17") are registered, counter is registered again as a float,  *)
(* the adapter writes them, the OPC-UA loop makes its passes and a client  *)
(* writes 42.0 to the variable of temp.                                    *)
(***************************************************************************)
OpcuaRegister ==
    /\ now < MaxOpcuaClock
    /\ \/ /\ "temp" \notin DOMAIN data_points
          /\ Register("temp", NoneAddr, PyFloatV(2), "float", "C", FALSE, TRUE)
       \/ /\ "temp" \in DOMAIN data_points
          /\ "counter" \notin DOMAIN data_points
          /\ Register("counter", NoneAddr, PyIntV(0), "int", "", FALSE, TRUE)
       \/ /\ "counter" \in DOMAIN data_points
          /\ "label" \notin DOMAIN data_points
          /\ Register("label", NoneAddr, PyStrV(<<"1", "7">>), "string", "", FALSE, TRUE)
       \/ /\ "label" \in DOMAIN data_points
          /\ data_points["counter"].data_type = "int"
          /\ Register("counter", NoneAddr, PyFloatV(0), "float", "", FALSE, TRUE)

\* the lines the adapter sends: counter <- 2.5 and label <- "abc"
OpcuaLines ==
    {Line(JObj([action |-> JStr("write"), key |-> JStr("counter"),
                value |-> JNum(PyFloatV(5))])),
     Line(JObj([action |-> JStr("write"), key |-> JStr("label"), value |-> JStr("abc")]))}

OpcuaIpcWrite ==
    /\ now < MaxOpcuaClock
    /\ Cardinality(DOMAIN data_points) = 3
    /\ \E line \in OpcuaLines : HandleClient(line)

\* add_variable may fail for a tag seen for the first time
OpcuaPass ==
    /\ server_threads.opcua.passes < MaxOpcuaPasses
    /\ \E faults \in SUBSET (DOMAIN data_points \ DOMAIN opcua_nodes) :
          /\ Cardinality(faults) <= 1
          /\ OpcuaLoopPass(faults)

OpcuaClient == OpcuaClientWrite("temp", PyFloatV(84))

NextOpcua ==
    \/ OpcuaRegister
    \/ OpcuaIpcWrite
    \/ OpcuaPass
    \/ OpcuaClient

SpecOpcua == Init /\ [][NextOpcua]_vars

(***************************************************************************)
(* SpecMqtt: the forwarder is started, the broker connection comes and     *)
(* goes, connects and publishes fail, and the forwarder is stopped.        *)
(***************************************************************************)
MqttRun ==
    /\ mqtt.passes < MaxMqttPasses
    /\ \E connect_raises \in BOOLEAN, connected \in BOOLEAN,
          sent \in 0..(MQTT_MAX_QUEUE + 1) :
          /\ mqtt.connected => ~connect_raises
          /\ (~mqtt.connected /\ connect_raises) => (~connected /\ sent = 0)
          /\ ~connected => sent = 0
          /\ sent <= Len(mqtt.out_queue) + 1
          /\ MqttPass(connect_raises, connected, sent)

MqttNetwork == \E connected \in BOOLEAN : MqttCallback(connected)

NextMqtt ==
    \/ MqttStart
    \/ MqttNetwork
    \/ MqttRun
    \/ MqttStop
    \/ MqttExit

SpecMqtt == Init /\ [][NextMqtt]_vars

(***************************************************************************)
(* SpecIpcServer: start and stop are called in any order while the accept  *)
(* threads take their steps and clients connect.  LiveIpcServer adds that  *)
(* an accept thread that can take a step takes one: its accept times out   *)
(* after a second.                                                         *)
(***************************************************************************)
IpcServerStart ==
    /\ is_alive(ipc_server, ipc_server._thread)
          \/ Len(ipc_server.accept_threads) < MaxIpcStarts
    /\ IpcStart

IpcServerStop == IpcStop

IpcServerRun ==
    \E t \in 1..MaxIpcStarts, connection \in BOOLEAN :
       /\ t \in DOMAIN ipc_server.accept_threads
       /\ connection => ipc_server.accept_threads[t].accepted < MaxAccepts
       /\ IpcRun(t, connection)

NextIpcServer ==
    \/ IpcServerStart
    \/ IpcServerStop
    \/ IpcServerRun

SpecIpcServer == Init /\ [][NextIpcServer]_vars

LiveIpcServer == SpecIpcServer /\ \A t \in 1..MaxIpcStarts : WF_vars(IpcRun(t, FALSE))

(***************************************************************************)
(* SpecType: tags are registered with a default of their data type,        *)
(* written with values of every type, and registered again with another    *)
(* data type and a default of that type.                                   *)
(***************************************************************************)
\* a data type and a default value of that type
TypedDefaults ==
    {[data_type |-> "float", default |-> PyFloatV(2)],
     [data_type |-> "int", default |-> PyIntV(0)],
     [data_type |-> "bool", default |-> PyBoolV(FALSE)],
     [data_type |-> "string", default |-> PyStrV(<<"x">>)]}

TypeValues == {PyFloatV(47), PyIntV(3), PyBoolV(TRUE), PyStrV(<<"a", "b", "c">>), PyNone}

TypeRegister ==
    /\ now < MaxTypeClock
    /\ \E d \in TypedDefaults :
          Register("temp", NoneAddr, d.default, d.data_type, "", FALSE, TRUE)

TypeWrite ==
    /\ now < MaxTypeClock
    /\ \E value \in TypeValues : Write(KeyArg("temp"), value)

NextType == TypeRegister \/ TypeWrite

SpecType == Init /\ [][NextType]_vars

(***************************************************************************)
(* SpecById: ensure_id called for keys with and without a tag, then        *)
(* write_by_id and bulk_write_by_id requests naming the ids drawn.         *)
(***************************************************************************)
MaxByIdClock == 3

ByIdLines ==
    {Line(JObj([action |-> JStr("write_by_id"), id |-> JStr(id), value |-> JNum(v)])) :
        id \in {"id1", "id2", "id9"}, v \in {PyIntV(3), PyFloatV(5)}}
    \cup {Line(JObj([action |-> JStr("bulk_write_by_id"),
                     updates |-> JList(<<JObj([id |-> JStr(id), value |-> JNum(PyIntV(3))])>>)])) :
             id \in {"id1", "id2"}}

ByIdRegister ==
    /\ now < MaxByIdClock
    /\ \E k \in Keys :
          /\ k \notin DOMAIN data_points
          /\ Register(k, NoneAddr, PyFloatV(5), "float", "C", FALSE, TRUE)

ByIdEnsure ==
    /\ next_uuid < MaxIds
    /\ \E k \in Keys : EnsureId(k)

ByIdRequest ==
    \E line \in ByIdLines :
        /\ HandleClient(line)
        /\ now' <= MaxByIdClock

NextById == ByIdRegister \/ ByIdEnsure \/ ByIdRequest

SpecById == Init /\ [][NextById]_vars

(***************************************************************************)
(* SpecIec104Rounds: as SpecIec104, with the mapping of label set before   *)
(* the mapping of temp, so that the broadcast reaches label first.         *)
(***************************************************************************)
Iec104MapLabelFirst ==
    /\ Iec104Setup
    /\ map_call.n < MaxMapCalls
    /\ \/ /\ DOMAIN iec104_mappings = {}
          /\ IEC104SetMapping(1, "label", 5001, "M_ME_NC_1")
       \/ /\ DOMAIN iec104_mappings = {1}
          /\ IEC104SetMapping(2, "temp", 5000, "M_ME_NC_1")

NextIec104Rounds ==
    \/ Iec104Register
    \/ Iec104Write
    \/ Iec104MapLabelFirst
    \/ Iec104Run
    \/ Iec104Loop
    \/ Iec104Stop
    \/ Iec104Exit

SpecIec104Rounds == Init /\ [][NextIec104Rounds]_vars

(***************************************************************************)
(* Properties of DataStore.                                                *)
(***************************************************************************)
\* coercion to data_type raises on value: only float() can raise
CoercionFails(data_type, value) ==
    data_type \in {"int", "float"} /\ ~PyFloat(value).ok

\* the value a successful coercion to data_type yields
Coerced(data_type, value) ==
    CASE data_type = "int" -> PyInt(value).val
      [] data_type = "float" -> PyFloat(value).val
      [] data_type = "bool" -> PyBool(value).val
      [] data_type = "string" -> PyStr(value).val
      [] OTHER -> value

\* the tag a write to key_or_address acts on, NoneKey when there is none
TargetKey(key_or_address) ==
    IF key_or_address.str
    THEN IF key_or_address.k \in DOMAIN data_points THEN key_or_address.k ELSE NoneKey
    ELSE IF key_or_address.a \in DOMAIN address_to_key
            /\ address_to_key[key_or_address.a] \in DOMAIN data_points
         THEN address_to_key[key_or_address.a]
         ELSE NoneKey

\* C1: once write returns on a registered tag, a value that cannot be coerced
\* has left value = default and quality = BAD, and a value that can be coerced
\* has left the coerced value and quality = GOOD.
C1_WriteCoercionOutcome ==
    (ret.op = "write" /\ TargetKey(ret.arg.key_or_address) # NoneKey) =>
        LET dp == data_points[TargetKey(ret.arg.key_or_address)]
        IN  IF CoercionFails(dp.data_type, ret.arg.value)
            THEN dp.value = dp.default /\ dp.quality = "BAD"
            ELSE dp.value = Coerced(dp.data_type, ret.arg.value) /\ dp.quality = "GOOD"

\* C2: a write whose value fails coercion invokes no change listener, whatever
\* the tag's prior value.
C2_FailedCoercionNotifiesNobody ==
    (ret.op = "write" /\ TargetKey(ret.arg.key_or_address) # NoneKey
        /\ CoercionFails(data_points[TargetKey(ret.arg.key_or_address)].data_type,
                         ret.arg.value))
        => calls = <<>>

\* C3: a write to an unregistered key, or to an address that maps to no tag,
\* changes nothing in the store and calls no listener, and a read of a key or
\* address with no tag returns 0.
C3_UnknownWriteStep ==
    (ret'.op = "write" /\ TargetKey(ret'.arg.key_or_address) = NoneKey) =>
        /\ UNCHANGED store_vars
        /\ calls' = <<>>

C3_UnknownReadStep ==
    (ret'.op = "read" /\ TargetKey(ret'.arg) = NoneKey) => ret'.val = PyIntV(0)

C3_UnknownWriteIsNoOp == [][C3_UnknownWriteStep /\ C3_UnknownReadStep]_vars

\* a write to an unregistered key was made while a tag, its history and a
\* listener existed
C3_Witness ==
    /\ ret.op = "write"
    /\ ret.arg.key_or_address.str
    /\ ret.arg.key_or_address.k \notin DOMAIN data_points
    /\ data_points # EmptyDict
    /\ history # EmptyDict
    /\ change_listeners # <<>>

\* C4: a second register call with the arguments of the call before it, for
\* the same key, returns the same address as the first and leaves the tag's
\* address and value as they were.
C4_RepeatedRegisterStep ==
    (ret.op = "register" /\ ret.err = "none" /\ ret'.op = "register" /\ ret'.arg = ret.arg) =>
        /\ ret'.err = "none"
        /\ ret'.val = ret.val
        /\ data_points'[ret.arg.key].address = data_points[ret.arg.key].address
        /\ data_points'[ret.arg.key].value = data_points[ret.arg.key].value

C4_RegisterIdempotent == [][C4_RepeatedRegisterStep]_vars

\* the pairs of distinct tags that have the same address
SharedAddress ==
    {p \in (DOMAIN data_points) \X (DOMAIN data_points) :
        /\ p[1] # p[2]
        /\ data_points[p[1]].address # NoneAddr
        /\ data_points[p[1]].address = data_points[p[2]].address}

\* C5 as stated: after any register calls, with any flags, no two distinct tags
\* have the same address.
C5_NoSharedAddress == SharedAddress = {}

\* C5 as amended: as long as every register call so far left
\* allow_address_conflict false, no two distinct tags have the same address.
C5_NoSharingWithoutFlag == ~conflict_allowed => SharedAddress = {}

\* a register call with an explicit address and allow_address_conflict = false
\* succeeded while the other tag holds another address
C5_Witness ==
    /\ ret.op = "register"
    /\ ret.err = "none"
    /\ ret.arg.address # NoneAddr
    /\ ~ret.arg.allow_address_conflict
    /\ \E k \in DOMAIN data_points :
          /\ k # ret.arg.key
          /\ data_points[k].address # NoneAddr
          /\ data_points[k].address # ret.arg.address
    /\ ~conflict_allowed

\* the addresses reserved for a data_type
RangeOf(data_type) == address_ranges[data_type][1]..address_ranges[data_type][2]

\* C6: every tag that has an address has it inside the range of its current
\* data_type.
C6_AddressInTypeRange ==
    \A k \in DOMAIN data_points :
        data_points[k].address # NoneAddr =>
            /\ data_points[k].data_type \in DOMAIN address_ranges
            /\ data_points[k].address \in RangeOf(data_points[k].data_type)

\* C7: register(key, address = A) with A mapped to a different key fails with
\* the address-conflict error and changes nothing in the store.
C7_ConflictStep ==
    (/\ ret'.op = "register"
     /\ ret'.arg.address # NoneAddr
     /\ ~ret'.arg.allow_address_conflict
     /\ ret'.arg.address \in DOMAIN address_to_key
     /\ address_to_key[ret'.arg.address] # ret'.arg.key) =>
        /\ ret'.err = "conflict"
        /\ UNCHANGED store_vars

C7_ConflictLeavesStoreUnchanged == [][C7_ConflictStep]_vars

\* register of a new key failed with the conflict error while the holder of the
\* address has a written value
C7_Witness ==
    /\ ret.op = "register"
    /\ ret.err = "conflict"
    /\ ret.arg.key \notin DOMAIN data_points
    /\ ret.arg.address \in DOMAIN address_to_key
    /\ address_to_key[ret.arg.address] \in DOMAIN history

\* every address of the data_type's range is taken
RangeFull(data_type) == RangeOf(data_type) \subseteq DOMAIN address_to_key

\* C8: register without an address fails with the exhaustion error, creating
\* no tag, exactly when every address of the data_type's range is taken;
\* otherwise it hands out an address of the range that was not in use; and a
\* register with a free explicit address succeeds.
C8_ExhaustionStep ==
    LET a == ret'.arg
        auto == a.address = NoneAddr /\ a.auto_allocate
    IN  ret'.op = "register" =>
            /\ (auto /\ RangeFull(a.data_type)) =>
                  /\ ret'.err = "exhausted"
                  /\ UNCHANGED <<data_points, key_to_address, address_to_key,
                                 key_to_id, id_to_key, history, change_listeners>>
            /\ (auto /\ ~RangeFull(a.data_type)) =>
                  /\ ret'.err = "none"
                  /\ ret'.val \in RangeOf(a.data_type) \ DOMAIN address_to_key
                  /\ data_points'[a.key].address = ret'.val
            /\ (a.address # NoneAddr /\ a.address \notin DOMAIN address_to_key) =>
                  /\ ret'.err = "none"
                  /\ data_points'[a.key].address = a.address
            /\ ret'.err = "exhausted" => (auto /\ RangeFull(a.data_type))

C8_ExhaustionFailsCleanly == [][C8_ExhaustionStep]_vars

\* register of a new key failed with the exhaustion error
C8_Witness ==
    /\ ret.op = "register"
    /\ ret.err = "exhausted"
    /\ ret.arg.key \notin DOMAIN data_points
    /\ RangeFull(ret.arg.data_type)

\* C9: key_to_id and id_to_key are inverse bijections, an id once minted for a
\* key never changes, and ensure_id returns the key's id.
C9_IdMapsInverse ==
    /\ \A k \in DOMAIN key_to_id :
          key_to_id[k] \in DOMAIN id_to_key /\ id_to_key[key_to_id[k]] = k
    /\ \A i \in DOMAIN id_to_key :
          id_to_key[i] \in DOMAIN key_to_id /\ key_to_id[id_to_key[i]] = i

C9_IdStableStep ==
    /\ \A k \in DOMAIN key_to_id : k \in DOMAIN key_to_id' /\ key_to_id'[k] = key_to_id[k]
    /\ ret'.op = "ensure_id" => ret'.val = key_to_id'[ret'.arg]

C9_StableIdBijection == []C9_IdMapsInverse /\ [][C9_IdStableStep]_vars

\* ensure_id was called again for a key after a later id was minted for
\* another key, and tags were registered and written
C9_Witness ==
    /\ ret.op = "ensure_id"
    /\ ret.val < next_uuid
    /\ data_points # EmptyDict
    /\ history # EmptyDict

\* the last n elements of seq
LastN(seq, n) == SubSeq(seq, IF Len(seq) > n THEN Len(seq) - n + 1 ELSE 1, Len(seq))

\* C10 as stated: after more than max_history_size writes to K, get_history(K)
\* (limit left at its default) has exactly max_history_size entries, the most
\* recent ones in write order.
C10_DefaultHistoryIsFull ==
    (/\ ret.op = "get_history"
     /\ ret.arg.limit = default_history_limit
     /\ Len(Get(written, ret.arg.key, <<>>)) > max_history_size) =>
        ret.val = LastN(written[ret.arg.key], max_history_size)

\* C10 as amended: the stored history of a key is the last max_history_size
\* samples written to it, oldest first, and never longer; get_history(K, limit)
\* returns all of them when limit <= 0 or limit >= max_history_size, and the
\* last `limit` of them otherwise (the default limit included).
C10_HistoryBound ==
    /\ \A k \in DOMAIN history :
          /\ Len(history[k]) <= max_history_size
          /\ history[k] = LastN(written[k], max_history_size)
    /\ (ret.op = "get_history" /\ Len(Get(written, ret.arg.key, <<>>)) > max_history_size) =>
          LET n == IF ret.arg.limit <= 0 \/ ret.arg.limit >= max_history_size
                   THEN max_history_size ELSE ret.arg.limit
          IN  /\ Len(ret.val) = n
              /\ ret.val = LastN(written[ret.arg.key], n)

\* get_history was called with the default limit after more than
\* max_history_size writes to the key
C10_Witness ==
    /\ ret.op = "get_history"
    /\ ret.arg.limit = default_history_limit
    /\ Len(Get(written, ret.arg.key, <<>>)) > max_history_size
    /\ Len(ret.val) = default_history_limit

\* the number of times callback cb occurs in a sequence of listeners or calls
Occurrences(cb, cbs) == Cardinality({i \in 1..Len(cbs) : cbs[i] = cb})

\* C11: a write that reaches a registered tag invokes the listeners exactly
\* when the value the tag held before the write differs (Python !=) from the
\* value the write stored: then a callback added k times is invoked k times,
\* each time with the key, the old and the new value; when the stored value
\* equals the old one no listener is invoked.
C11_NotifyStep ==
    (ret'.op = "write" /\ ret'.val.key # NoneKey) =>
        LET k == ret'.val.key
            old == data_points[k].value
            new == data_points'[k].value
        IN  IF ~PyEq(old, new)
            THEN /\ \A cb \in ListenCallbacks :
                        Occurrences(cb, [i \in 1..Len(calls') |-> calls'[i].cb])
                            = Occurrences(cb, change_listeners)
                 /\ \A i \in 1..Len(calls') :
                        /\ calls'[i].key = k
                        /\ calls'[i].old = old
                        /\ calls'[i].new = new
            ELSE calls' = <<>>

C11_ListenersSeeEveryTransition == [][C11_NotifyStep]_vars

\* a write changed the value of a tag whose one callback had been added twice
C11_Witness ==
    /\ ret.op = "write"
    /\ Len(change_listeners) = 2
    /\ change_listeners[1] = change_listeners[2]
    /\ Len(calls) = 2
    /\ ~PyEq(calls[1].old, calls[1].new)

\* C12: when a listener raises an Exception, the write that called it still
\* ends normally: it returns without an error, the tag holds the value and
\* the timestamp of the write, the sample is the newest of the history, every
\* listener of the list was called (those behind the raising one too), and
\* the lock is free.
C12_CompletionStep ==
    \A h \in Handlers :
        (threads[h].pc = "logged" /\ threads'[h].pc # "logged") =>
            LET th == threads[h]
                k == th.key
                hist == history'[k]
            IN  /\ ret'.op = "write"
                /\ ret'.err = "none"
                /\ lock' = NoThread
                /\ data_points'[k].value = th.validated
                /\ data_points'[k].timestamp = th.t
                /\ hist[Len(hist)] = [timestamp |-> th.t, value |-> th.validated]
                /\ ~PyEq(th.old, th.validated) =>
                      [i \in 1..Len(calls') |-> calls'[i].cb] = change_listeners

C12_ListenerExceptionsContained == [][C12_CompletionStep]_vars

\* a write has ended whose first listener raised and whose second was called
C12_Witness ==
    /\ ret.op = "write"
    /\ Len(calls) = 2
    /\ calls[1].caught
    /\ ~calls[2].caught
    /\ lock = NoThread
    /\ data_points[ret.val.key].value = calls[2].new

\* C13: whatever the interleaving of writer and reader threads, a reader
\* call returns, for every tag, the value and quality that one finished
\* write left (or the registered default when none has finished) and the
\* history of the finished writes, newest last: never the state in the
\* middle of a write.
C13_ReadersSeeFinishedWrites == observed.got = observed.expected

\* a reader took a snapshot after a write to temp while a handler thread
\* had a request in progress
C13_Witness ==
    /\ observed.op = "detailed_snapshot"
    /\ "temp" \in DOMAIN committed
    /\ "temp" \in DOMAIN observed.got
    /\ observed.got["temp"] = committed["temp"]
    /\ \E h \in Handlers : threads[h].pc = "ready"

\* the handler thread h has made some but not all the writes of a
\* bulk_write_by_id request
InsideBulk(h) ==
    /\ threads[h].pc # "idle"
    /\ Len(threads[h].req) > 1
    /\ threads[h].i > 1

\* C14: no reader call returns between two writes of one bulk_write_by_id
\* request.
C14_ReaderStep == observed' # observed => \A h \in Handlers : ~InsideBulk(h)

C14_NoReaderInsideBulk == [][C14_ReaderStep]_vars

\* the last call was the IPC request with the action named
IpcAction(name) ==
    /\ ret.op = "ipc"
    /\ request.valid
    /\ request.json.j = "obj"
    /\ JGet(request.json, "action") = JStr(name)

\* C15: a bulk_write_by_id request whose updates member is an array is
\* answered with ok true, whatever the elements of the array are; one whose
\* updates member is anything else (or missing) is answered with ok false.
C15_BulkEnvelope ==
    IpcAction("bulk_write_by_id") =>
        /\ response.sent
        /\ response.ok = (JGet(request.json, "updates").j = "list")

\* C16: the response to a bulk_write_by_id request with an array has one
\* result per element, in the order of the elements: an element naming the
\* id of a tag has ok true and the tag's key, and the value of the last such
\* element of a tag (coerced to the tag's type, or the default when it
\* cannot be) is what read returns; an element naming an id no tag has has
\* ok false and "id not found"; the failing elements change nothing in the
\* outcome of the others.
C16_BulkResults ==
    (IpcAction("bulk_write_by_id") /\ JGet(request.json, "updates").j = "list") =>
        LET updates == JGet(request.json, "updates").items
            results == response.results
            id_of(i) == JGet(updates[i], "id")
            key_of(i) == Get(id_to_key, IdOf(id_of(i).s), NoneKey)
            names_tag(i) == updates[i].j = "obj" /\ NonEmptyStr(id_of(i))
                            /\ key_of(i) # NoneKey
            names_unknown(i) == updates[i].j = "obj" /\ NonEmptyStr(id_of(i))
                                /\ key_of(i) = NoneKey
        IN  /\ response.has_results
            /\ Len(results) = Len(updates)
            /\ \A i \in 1..Len(updates) :
                  /\ names_tag(i) =>
                        /\ results[i].ok
                        /\ results[i].key = key_of(i)
                        /\ results[i].id = id_of(i)
                        /\ (\A j \in (i + 1)..Len(updates) :
                                ~(names_tag(j) /\ key_of(j) = key_of(i))) =>
                              LET dp == data_points[key_of(i)]
                                  value == FromJson(JGet(updates[i], "value"))
                              IN  read(data_points, address_to_key, KeyArg(key_of(i)))
                                    = IF CoercionFails(dp.data_type, value) THEN dp.default
                                      ELSE Coerced(dp.data_type, value)
                  /\ names_unknown(i) =>
                        /\ ~results[i].ok
                        /\ results[i].error = "id not found"
                        /\ results[i].id = id_of(i)

\* the request line is malformed JSON, lacks a field its action requires,
\* or names no known action
BadRequest(line) ==
    LET req == line.json
        action == JGet(req, "action")
        has(field) == field \in DOMAIN req.fields
    IN  \/ ~line.valid
        \/ /\ req.j = "obj"
           /\ \/ action = JStr("write") /\ ~(has("key") /\ has("value"))
              \/ action = JStr("write_by_id") /\ ~(has("id") /\ has("value"))
              \/ action = JStr("bulk_write_by_id") /\ ~has("updates")
              \/ action \notin {JStr("write"), JStr("write_by_id"),
                                JStr("bulk_write_by_id")}

\* C17: a request that is malformed JSON, lacks a field its action requires
\* or names an unknown action is answered with ok false and a reason
\* ("unknown action" for an unknown action), and no tag is changed.
C17_BadRequestStep ==
    (ret'.op = "ipc" /\ BadRequest(request')) =>
        /\ response'.sent
        /\ ~response'.ok
        /\ response'.error # ""
        /\ (request'.valid
            /\ JGet(request'.json, "action") \notin {JStr("write"), JStr("write_by_id"),
                                                     JStr("bulk_write_by_id")})
              => response'.error = "unknown action"
        /\ UNCHANGED <<data_points, history>>

C17_BadRequestsRejected == [][C17_BadRequestStep]_vars

\* the registers a Modbus entry occupies
ModbusSpan(entry) ==
    entry.register_address
        ..(entry.register_address + _get_register_count(entry.data_type) - 1)

\* C18: in the IEC-104 registry no two entries have the same IOA, and in
\* the Modbus registry no two entries have overlapping register spans,
\* whatever set, remove and bulk calls have run.
C18_LocatorsUnique ==
    /\ \A a \in DOMAIN iec104_mappings, b \in DOMAIN iec104_mappings :
          a # b => iec104_mappings[a].ioa # iec104_mappings[b].ioa
    /\ \A a \in DOMAIN modbus_mappings, b \in DOMAIN modbus_mappings :
          a # b => ModbusSpan(modbus_mappings[a]) \cap ModbusSpan(modbus_mappings[b]) = {}

\* the last mapping call was a bulk generation with data_type padding on
\* the registry of the protocol, and every id of its list named a tag
DataTypeBulk(protocol) ==
    /\ map_call.op = "bulk"
    /\ map_call.protocol = protocol
    /\ map_call.padding_strategy = "data_type"
    /\ \A i \in 1..Len(map_call.results) : map_call.results[i].ok

\* the locators results i and j of the last bulk generation occupy
ResultSpan(i) ==
    map_call.results[i].locator
        ..(map_call.results[i].locator + map_call.results[i].register_count - 1)

\* C19: a bulk generation with data_type padding over a list of distinct
\* registered ids gives pairwise distinct IOAs (IEC-104) and pairwise
\* disjoint register spans (Modbus).
C19_BulkCollisionFree ==
    (DataTypeBulk("iec104") \/ DataTypeBulk("modbus")) =>
        \A i \in 1..Len(map_call.results), j \in 1..Len(map_call.results) :
            i # j => ResultSpan(i) \cap ResultSpan(j) = {}

\* the sub-range of an ASDU type: end_range itself belongs to the next type
IEC104SubRange(type) ==
    iec104_type_ranges(type)[1]..(iec104_type_ranges(type)[2] - 1)

\* every tag of the last IEC-104 bulk generation has the type inferred from
\* the tag and an IOA in the sub-range of that type, and the first tag of
\* each type has the start of the sub-range
IEC104Grouped ==
    LET results == map_call.results
    IN  \A i \in 1..Len(results) :
            LET dp == data_points[results[i].key]
            IN  /\ results[i].type
                      = _map_to_iec104_data_type(dp.data_type, dp.units, dp.key)
                /\ iec104_mappings[results[i].data_id].ioa = results[i].locator
                /\ iec104_mappings[results[i].data_id].type = results[i].type
                /\ results[i].locator \in IEC104SubRange(results[i].type)
                /\ (\A j \in 1..(i - 1) : results[j].type # results[i].type) =>
                      results[i].locator = iec104_type_ranges(results[i].type)[1]

\* scenario S2: tempA (float), motorOn (bool) and counter (int), in that
\* order, get 1000/M_ME_NC_1, 3000/M_SP_NA_1 and 2000/M_ME_NB_1
IEC104ScenarioS2 ==
    (map_call.data_ids = <<1, 2, 3>> /\ "counter" \in DOMAIN data_points
     /\ map_call.start = 1000) =>
        /\ [i \in 1..3 |-> map_call.results[i].key] = <<"tempA", "motorOn", "counter">>
        /\ [i \in 1..3 |-> map_call.results[i].locator] = <<1000, 3000, 2000>>
        /\ [i \in 1..3 |-> map_call.results[i].type]
              = <<"M_ME_NC_1", "M_SP_NA_1", "M_ME_NB_1">>

SequentialBulk ==
    /\ map_call.op = "bulk"
    /\ map_call.protocol = "modbus"
    /\ map_call.padding_strategy = "sequential"
    /\ \A i \in 1..Len(map_call.results) : map_call.results[i].ok

\* C21: a sequential Modbus bulk generation packs the register spans
\* contiguously from start_address: the first span begins at start_address
\* and every other span begins where the span of the tag before it ends.
C21_SequentialContiguous ==
    SequentialBulk =>
        \A i \in 1..Len(map_call.results) :
            map_call.results[i].locator
                = IF i = 1 THEN map_call.start
                  ELSE map_call.results[i - 1].locator
                           + map_call.results[i - 1].register_count

(***************************************************************************)
(* Properties of the Modbus publisher.                                     *)
(***************************************************************************)
\* the step is a publisher tick
IsModbusTick == modbus_tick'.n = modbus_tick.n + 1

\* the word of a holding register
HoldingRegister(registers, address) == Get(registers, address, 0)

\* the tag of the entry exists and the tick can encode its value
Encodable(entry) ==
    /\ entry.key \in DOMAIN data_points
    /\ data_points[entry.key].value # PyNone
    /\ PyFloat(data_points[entry.key].value).ok

\* the entry's registers hold, after the step, the words the tick makes of
\* the value of its tag
PublishedAsUsual(entry) ==
    LET registers == _value_to_registers(PyFloat(data_points[entry.key].value).val.n,
                                         entry.data_type)
    IN  \A i \in 1..Len(registers) :
            HoldingRegister(holding_registers', entry.register_address + i - 1)
                = registers[i]

C22_TickStep ==
    IsModbusTick =>
        \A data_id \in DOMAIN modbus_mappings :
            IF modbus_mappings[data_id].key \notin DOMAIN data_points
            THEN ModbusSpan(modbus_mappings[data_id]) \cap DOMAIN modbus_tick'.updates = {}
            ELSE Encodable(modbus_mappings[data_id])
                    => PublishedAsUsual(modbus_mappings[data_id])

\* C22: a publisher tick writes no register of the span of an entry whose
\* key names no tag, and writes the registers of the other entries as
\* usual.
C22_AbsentTagSkipped == [][C22_TickStep]_vars

C23_TickStep ==
    IsModbusTick =>
        \A data_id \in DOMAIN modbus_mappings :
            LET entry == modbus_mappings[data_id]
            IN  /\ (/\ entry.key \in DOMAIN data_points
                    /\ data_points[entry.key].value.t = "str"
                    /\ ~PyFloat(data_points[entry.key].value).ok)
                      => \A a \in ModbusSpan(entry) :
                            HoldingRegister(holding_registers', a) = 0
                /\ Encodable(entry) => PublishedAsUsual(entry)

\* C23: a publisher tick sets the registers of an entry whose tag holds a
\* non-numeric string to zero and still updates the registers of every
\* other entry.
C23_EncodingErrorIsLocal == [][C23_TickStep]_vars

\* the words v mod 2^32 is made of, high word first
Words32(v) == <<(v \div 65536) % 65536, v % 65536>>

\* the two words in the order of the endianness
WordOrder(words, endianess) ==
    IF endianess = "big" THEN words ELSE <<words[2], words[1]>>

\* the words the entry's two registers are to hold for the value of its
\* tag: v mod 2^32 for an integer v under int32 and uint32, the IEEE-754
\* single under float32
TwoWords(entry) ==
    IF entry.data_type = "float32"
    THEN float32_registers(PyFloat(data_points[entry.key].value).val.n)
    ELSE Words32(data_points[entry.key].value.n)

\* the entry is one C24 speaks of: int32 or uint32 on an integer tag
\* value, or float32 on a number
TwoRegisterEntry(entry) ==
    /\ entry.key \in DOMAIN data_points
    /\ \/ /\ entry.data_type \in {"int32", "uint32"}
          /\ data_points[entry.key].value.t = "int"
       \/ /\ entry.data_type = "float32"
          /\ data_points[entry.key].value.t \in {"int", "float"}

C24_TickStep ==
    (IsModbusTick /\ modbus_tick'.error = "") =>
        \A data_id \in DOMAIN modbus_mappings :
            LET entry == modbus_mappings[data_id]
            IN  TwoRegisterEntry(entry) =>
                    /\ {entry.register_address, entry.register_address + 1}
                          \subseteq DOMAIN modbus_tick'.updates
                    /\ <<HoldingRegister(holding_registers', entry.register_address),
                         HoldingRegister(holding_registers', entry.register_address + 1)>>
                          = WordOrder(TwoWords(entry), entry.endianess)

\* C24: a tick that completes writes, for every int32 or uint32 entry on
\* an integer value v, two consecutive registers holding v mod 2^32, high
\* word first under big endianness and low word first under little; the
\* two registers of a float32 entry follow the same word order.
C24_WordOrder == [][C24_TickStep]_vars

C25_TickStep ==
    (/\ IsModbusTick
     /\ "temp" \in DOMAIN data_points
     /\ data_points["temp"].address = 40001
     /\ "temp" \in DOMAIN written) =>
        <<HoldingRegister(holding_registers', 40001),
          HoldingRegister(holding_registers', 40002)>>
            = float32_registers(PyFloat(data_points["temp"].value).val.n)

\* C25: once temp is registered as a float at address 40001 and a value
\* has been written to it through the IPC write action, a publisher tick
\* leaves the float32 words of that value in the holding registers 40001
\* and 40002, whatever else is configured.
C25_WriteReachesRegisters == [][C25_TickStep]_vars

(***************************************************************************)
(* Properties of the IEC-104 fallback server.                              *)
(***************************************************************************)
\* C26: the first frame sent to a client is STARTDT act: no client is sent
\* an ASDU frame before it.
C26_StartdtFirst ==
    \A c \in Clients :
        client_sockets[c].received # <<>> => client_sockets[c].received[1] = startdt_act

\* the bytes first..last of a frame
Bytes(frame, first, last) == [i \in 1..(last - first + 1) |-> frame[first + i - 1]]

\* the low three bytes of an IOA, lowest first
IOA3(ioa) == <<ioa % 256, (ioa \div 256) % 256, (ioa \div 65536) % 256>>

\* the layout of an ASDU frame for an IOA and a float given in halves:
\* 0x68, the number of bytes that follow the length byte, type id, SQ 1,
\* cause, originator, ASDU address 01 00, three bytes of IOA, the four
\* bytes of the value right after them, three bytes of timestamp
AsduLayout(frame, ioa, h) ==
    /\ Len(frame) = 18
    /\ frame[1] = 104
    /\ frame[2] = Len(frame) - 2
    /\ frame[4] = 1
    /\ frame[5] = 3
    /\ frame[6] = 0
    /\ Bytes(frame, 7, 8) = <<1, 0>>
    /\ Bytes(frame, 9, 11) = IOA3(ioa)
    /\ Bytes(frame, 12, 15) = pack_f(h)
    /\ Bytes(frame, 16, 18) = <<0, 0, 0>>

\* C27: every ASDU frame a pass builds has the layout above; for IOA 5000
\* the bytes after the ASDU address are 88 13 00 and then the value.
C27_FrameLayout ==
    \A i \in 1..Len(iec104_round.frames) :
        /\ AsduLayout(iec104_round.frames[i].frame, iec104_round.frames[i].ioa,
                      iec104_round.frames[i].value)
        /\ iec104_round.frames[i].ioa = 5000 =>
              Bytes(iec104_round.frames[i].frame, 7, 15)
                  = <<1, 0, 136, 19, 0>> \o pack_f(iec104_round.frames[i].value)

\* the step is a pass of the loop of the fallback server
IsPass == iec104_round'.n = iec104_round.n + 1

\* the client is in the live-client list
Live(server, c) == \E i \in 1..Len(server.clients) : server.clients[i] = c

\* a send to the client raises in this step
SendFails(c) == client_sockets'[c].failed /\ ~client_sockets[c].failed

C28_PassStep ==
    IsPass =>
        \A c \in Clients :
            /\ SendFails(c) =>
                  /\ client_sockets'[c].state = "closed"
                  /\ ~Live(iec104_server', c)
            /\ client_sockets[c].failed =>
                  client_sockets'[c].received = client_sockets[c].received
            /\ (Live(iec104_server', c) \/ Live(iec104_server, c))
                   /\ ~client_sockets'[c].failed =>
                  /\ Live(iec104_server', c)
                  /\ iec104_round'.broadcast =>
                        Len(client_sockets'[c].received)
                            = Len(client_sockets[c].received)
                                  + (IF Live(iec104_server, c) THEN 0 ELSE 1)
                                  + Cardinality(DOMAIN iec104_mappings)

\* C28: a client whose send fails is closed and removed from the list and
\* is sent no further frame; a client whose sends succeed stays in the list
\* and is sent one frame per mapping in every broadcast round.
C28_FailedClientsPruned == [][C28_PassStep]_vars

\* C29: when the fallback server has ended, on whatever path, it has
\* returned without an exception, the listener socket is closed and so is
\* the socket of every client that was accepted.
C29_AllSocketsReleased ==
    iec104_server.pc \in {"returned", "escaped"} =>
        /\ iec104_server.pc = "returned"
        /\ iec104_server.server_socket # "open"
        /\ \A c \in Clients : client_sockets[c].state # "open"

\* the thread of the server was ended by an exception raised inside a pass
\* of its loop
EndedByTickError(server) ==
    /\ server_threads[server].state = "terminated"
    /\ server_threads[server].in_tick

\* C30: an error raised while a mapping or tag is processed inside a
\* publish tick never terminates a server thread: no thread of the Modbus,
\* OPC-UA and SNMP servers is ended by an exception of a pass of its loop,
\* and the IEC-104 loop, once entered, is left only by its return
C30_TickErrorsContained ==
    /\ \A server \in DOMAIN server_threads : ~EndedByTickError(server)
    /\ iec104_round.n > 0 => iec104_server.pc \in {"loop", "returned"}

\* the step is a pass of the loop of opcua_server_thread
IsOpcuaPass == server_threads'.opcua.passes = server_threads.opcua.passes + 1

\* after the step the variable of key has the type it had and holds the
\* store value coerced to that type
PinnedAndSet(key) ==
    /\ opcua_nodes'[key].type = opcua_nodes[key].type
    /\ to_expected_type(opcua_nodes[key].type, data_points[key].value).ok
    /\ opcua_nodes'[key].value =
          to_expected_type(opcua_nodes[key].type, data_points[key].value).val

C31_PassStep == IsOpcuaPass => \A key \in DOMAIN opcua_nodes : PinnedAndSet(key)

\* C31: the type of an OPC-UA variable is fixed when the variable is
\* created: every later pass of the loop leaves the type as it was and sets
\* the variable to the store value coerced to that type
C31_TypePinned == [][C31_PassStep]_vars

\* the step is a write of a client to an OPC-UA variable
IsClientWrite ==
    /\ opcua_nodes' # opcua_nodes
    /\ server_threads' = server_threads

\* the variable of key holds something else than the store does
ClientValue(key) ==
    /\ key \in DOMAIN opcua_nodes'
    /\ key \in DOMAIN opcua_nodes
    /\ opcua_nodes'[key].value # opcua_nodes[key].value

C32_WriteStep ==
    IsClientWrite =>
        \A key \in DOMAIN data_points :
            ClientValue(key) =>
                /\ data_points'[key].value = opcua_nodes'[key].value
                /\ read(data_points', address_to_key', KeyArg(key)) = opcua_nodes'[key].value

\* C32: a value a client writes to the OPC-UA variable of a tag lands in the
\* DataStore: after the write the store holds the written value for the
\* tag, and read returns it
C32_ClientWriteLands == [][C32_WriteStep]_vars

\* the step is a pass of _run that called _enqueue
IsEnqueue == mqtt'.passes = mqtt.passes + 1 /\ mqtt'.enqueued # 0

\* the payload is as old as any payload of the queue
Oldest(payload, queue) == \A i \in 1..Len(queue) : payload <= queue[i]

\* the call of _enqueue left the queue within its bound and with the new
\* payload last; on a full queue it took out the oldest payload and nothing
\* else
EnqueuedDropOldest ==
    /\ Len(mqtt'.after_enqueue) <= MQTT_MAX_QUEUE
    /\ mqtt'.after_enqueue # <<>>
    /\ mqtt'.after_enqueue[Len(mqtt'.after_enqueue)] = mqtt'.enqueued
    /\ IF Len(mqtt.out_queue) < MQTT_MAX_QUEUE
       THEN mqtt'.after_enqueue = Append(mqtt.out_queue, mqtt'.enqueued)
       ELSE \E i \in 1..Len(mqtt.out_queue) :
               /\ Oldest(mqtt.out_queue[i], mqtt.out_queue)
               /\ mqtt'.after_enqueue =
                     Append(SubSeq(mqtt.out_queue, 1, i - 1)
                            \o SubSeq(mqtt.out_queue, i + 1, Len(mqtt.out_queue)),
                            mqtt'.enqueued)

C33_EnqueueStep ==
    /\ Len(mqtt'.out_queue) <= MQTT_MAX_QUEUE
    /\ IsEnqueue => EnqueuedDropOldest

\* C33: the outgoing queue of the MQTT forwarder never holds more than
\* MQTT_MAX_QUEUE payloads, and an enqueue on a full queue discards the
\* oldest queued payload and appends the new one, which is then the last
\* element of the queue
C33_BoundedDropOldest == [][C33_EnqueueStep]_vars

\* the accept thread numbered t was started and has not ended
AcceptLoopAlive(t) ==
    /\ t \in DOMAIN ipc_server.accept_threads
    /\ ipc_server.accept_threads[t].pc # "done"

\* the last call was stop and the thread numbered t is still alive
StoppedAlive(t) == ipc_server.last_call = "stop" /\ AcceptLoopAlive(t)

\* while the last call is stop no file is at socket_path
C34_PathGone == ipc_server.last_call = "stop" => ipc_server.path = 0

\* a step from a state whose last call is stop accepts no connection
C34_NoAcceptStep ==
    ipc_server.last_call = "stop" =>
        \A t \in DOMAIN ipc_server.accept_threads :
            ipc_server'.accept_threads[t].accepted = ipc_server.accept_threads[t].accepted

\* C34: after stop() the accept thread sees the stop event and ends, no
\* connection is accepted once stop was called, and the socket path no
\* longer exists
C34_StopEndsAcceptLoop ==
    /\ \A t \in 1..MaxIpcStarts : StoppedAlive(t) ~> ~AcceptLoopAlive(t)
    /\ [][C34_NoAcceptStep]_vars
    /\ []C34_PathGone

\* stop was called while the accept thread was blocked in accept with a
\* connection taken before, and the thread has ended
C34_Witness ==
    /\ ipc_server.last_call = "stop"
    /\ ipc_server._thread = 1
    /\ ipc_server.accept_threads[1].pc = "done"
    /\ ipc_server.accept_threads[1].accepted > 0
    /\ ipc_server.sockets[1] = "closed"

\* the accept thread numbered t is alive and its socket listens at
\* socket_path
RunningOnBoundSocket(t) ==
    /\ AcceptLoopAlive(t)
    /\ ipc_server.path = ipc_server.accept_threads[t].srv
    /\ ipc_server.sockets[ipc_server.accept_threads[t].srv] = "listening"

\* C39: after any sequence of start() and stop() calls at most one accept
\* loop is alive, and whenever the last call was start() an accept loop is
\* running on the socket bound at socket_path
C39_OneLoopAfterStart ==
    /\ \A t, u \in DOMAIN ipc_server.accept_threads :
          AcceptLoopAlive(t) /\ AcceptLoopAlive(u) => t = u
    /\ ipc_server.last_call = "start" =>
          \E t \in DOMAIN ipc_server.accept_threads : RunningOnBoundSocket(t)

\* the type of the values of a data type
PythonType(data_type) ==
    CASE data_type = "float" -> "float"
      [] data_type = "int" -> "int"
      [] data_type = "bool" -> "bool"
      [] data_type = "string" -> "str"
      [] OTHER -> "any"

\* the value of the tag is of the type its data_type names
Typed(dp) == PythonType(dp.data_type) \in {dp.value.t, "any"}

\* C35: in every reachable state the value of each tag is of the type
\* named by its data_type
C35_ValueTypedPerDataType == \A key \in DOMAIN data_points : Typed(data_points[key])

\* address resolves to key in the address-to-key map
Resolves(address, key) == address \in DOMAIN address_to_key /\ address_to_key[address] = key

\* C36: in every reachable state address A resolves to key K exactly when the
\* address field of tag K is A, and the key-to-address map holds that address
C36_AddressMapsAgree ==
    \A key \in DOMAIN data_points :
        /\ \A address \in (DOMAIN address_to_key \cup {data_points[key].address}) \ {NoneAddr} :
              Resolves(address, key) <=> data_points[key].address = address
        /\ key \in DOMAIN key_to_address => key_to_address[key] = data_points[key].address

\* the value the last finished write to key stored: by the rule of
\* DataStore.write (listeners are called when old != new) it equals the new
\* value of the last notification for key, or the registration default
LastNotified(key) ==
    LET w == Get(written, key, <<>>)
    IN  IF w = <<>> THEN data_points[key].default ELSE w[Len(w)].value

\* C37: for each key the notifications form a chain under any interleaving
\* of the writers: a write that ends calls the listeners exactly when its
\* value differs from the new value of the previous notification for the key
\* (the registration default when there was none), every call it makes has
\* that value as old value and the stored value as new value; and whenever
\* no write is in progress the tag holds the new value of the last
\* notification.
C37_NotifyChainStep ==
    \A h \in Handlers :
        (threads[h].pc = "logged" /\ threads'[h].pc # "logged") =>
            LET key == threads[h].key
                previous == LastNotified(key)
                stored == threads[h].validated
            IN  /\ (calls' # <<>>) <=> (change_listeners # <<>> /\ ~PyEq(previous, stored))
                /\ \A i \in 1..Len(calls') :
                      /\ calls'[i].key = key
                      /\ calls'[i].old = previous
                      /\ calls'[i].new = stored

C37_ChainEndsAtValue ==
    lock = NoThread => \A key \in DOMAIN data_points : data_points[key].value = LastNotified(key)

C37_NotificationsChain == [][C37_NotifyChainStep]_vars /\ []C37_ChainEndsAtValue

\* a second write to temp has ended while another thread had a write of its
\* own to make, and the listeners were called with the value of the first
\* write as old value
C37_Witness ==
    /\ ret.op = "write"
    /\ ret.val.key = "temp"
    /\ Len(Get(written, "temp", <<>>)) = 2
    /\ calls # <<>>
    /\ calls[1].old = written["temp"][1].value
    /\ calls[1].new = written["temp"][2].value
    /\ data_points["temp"].value = calls[1].new
    /\ \E h \in Handlers : threads[h].pc = "ready"

\* the ids the last response reports as written, each with its key: the one
\* of a write_by_id answered ok, and those of the results with ok true of a
\* bulk_write_by_id
AnsweredOk(resp) ==
    (IF resp.sent /\ resp.ok /\ resp.key # NoneKey THEN {resp.key} ELSE {})
    \cup {resp.results[i].key : i \in {j \in 1..Len(resp.results) : resp.results[j].ok}}

\* the value a request of ByIdLines asks to write
RequestedValue(line) ==
    IF JGet(line.json, "action") = JStr("write_by_id")
    THEN FromJson(JGet(line.json, "value"))
    ELSE FromJson(JGet(JGet(line.json, "updates").items[1], "value"))

\* C38: every id the store holds names a registered tag, and a request by id
\* answered with ok true and key K has written to tag K: K is registered and
\* read(K) returns the value of the request
C38_AnsweredStep ==
    (ret'.op = "ipc" /\ request' \in ByIdLines) =>
        \A key \in AnsweredOk(response') :
            /\ key \in DOMAIN data_points'
            /\ data_points'[key].timestamp > now
            /\ PyEq(read(data_points', address_to_key', KeyArg(key)), RequestedValue(request'))

C38_IdsNameTags == \A id \in DOMAIN id_to_key : id_to_key[id] \in DOMAIN data_points

C38_IdsReferToTags == [][C38_AnsweredStep]_vars /\ []C38_IdsNameTags

\* the value DATA_STORE.read returns for the key of the mapping is one that
\* float() converts
NumericMapping(meta) ==
    LET value == read(data_points, address_to_key, KeyArg(meta.key))
    IN  value # PyNone /\ PyFloat(value).ok

\* the round sent a frame for the information object address
FrameSent(round, ioa) == \E i \in 1..Len(round.frames) : round.frames[i].ioa = ioa

\* C40: in every broadcast round of the fallback server made with a live
\* client, each mapping whose tag holds a numeric value has its frame sent,
\* whatever the other mappings of the table hold
C40_RoundStep ==
    (/\ IsPass
     /\ iec104_round'.broadcast
     /\ \E c \in Clients : Live(iec104_server', c) /\ ~client_sockets'[c].failed) =>
        \A id \in DOMAIN iec104_mappings :
            NumericMapping(iec104_mappings[id]) => FrameSent(iec104_round', iec104_mappings[id].ioa)

C40_NumericMappingsSentEveryRound == [][C40_RoundStep]_vars

====
